---- MODULE Spec2Model ----
(***************************************************************************)
(* Model of @moon7/async: the counting Semaphore with its FIFO wait queue  *)
(* (src/src/semaphore.ts), the Mutex (capacity-1 semaphore) and the        *)
(* TaskPool built on it.  Promises, `await` and the microtask (job) queue  *)
(* of the JavaScript run time are modelled explicitly: every promise has a *)
(* state and at most one reaction, and reactions run in FIFO order.        *)
(***************************************************************************)
EXTENDS Integers, Sequences, FiniteSets, TLC

\* ---------------------------------------------------------------- bounds
MaxCapacity == 2
MaxCalls == 3
MaxNumerator == 4
MaxDenominator == 2
MaxMinWait == 10
MaxIndex == 5
MaxTries == 2
MaxWait == 2
MaxTimeout == 2
MaxTime == 6

Calls == 1..MaxCalls

\* the promises one call creates
Proms == {"fut", "acq", "macq", "body", "use", "wrap"}
NoValue == <<"none", 0>>
NoPromise == [st |-> "none", val |-> NoValue]
Pending == [st |-> "pending", val |-> NoValue]

\* what a promise can carry: the token of call c, or the value returned or the
\* error thrown by the operation passed to call c (each operation has its own)
TokenOf(c) == <<"token", c>>
ValueOf(c) == <<"value", c>>
ErrorOf(c) == <<"error", c>>
Returned(c) == [st |-> "fulfilled", val |-> ValueOf(c)]
Thrown(c) == [st |-> "rejected", val |-> ErrorOf(c)]
Outcomes(c) == {Returned(c), Thrown(c)}

VARIABLES
    api,        \* which object owns the semaphore: "Semaphore", "Mutex", "TaskPool"
    capacity,   \* Semaphore.capacity
    count,      \* Semaphore.count (observable as `used`)
    queue,      \* Semaphore.queue: the queued callbacks, each named by its acquire call
    kind,       \* kind[c]: the public operation call c invokes ("idle" before the call)
    pc,         \* pc[c]: position of call c
    issued,     \* issued[c]: release() has created the token of call c
    released,   \* released[c]: the closure variable `released` of the token of call c
    pst,        \* pst[c][p]: state and value of promise p of call c
    reg,        \* reg[c][p]: the reaction of promise p of call c has been registered
    jobs,       \* the microtask queue
    outcome,    \* outcome[c]: how the operation passed to call c ended
    result,     \* result[c]: what the caller of c observed
    freed,      \* freed[c]: number of times the token of call c returned true
    last,       \* the last operation executed, with the state it started from
    enqOrder,   \* calls in the order their callbacks were pushed on the queue
    grantOrder, \* calls in the order their queued callbacks were invoked
    recvOrder,  \* queued calls in the order their callers resumed with the token
    nextCall,   \* the next call to be issued
    observing,  \* a caller reads `used` before each use call and follows the
                \* permits taken and freed until the call settles
    usedBefore, \* usedBefore[c]: `used` just before use call c, while c is pending
    othersNet,  \* othersNet[c]: permits taken less permits freed by the other
                \* calls since use call c was made, while c is pending
    taskOf,     \* taskOf[c]: index in submitAll's argument of the task that
                \* submit call c runs (0: c is no call made by submitAll)
    pall,       \* the promise Promise.all returned to submitAll
    psub,       \* the promise submitAll returned to its caller
    seen,       \* what the caller of submitAll observed
    arrived,    \* calls of submitAll in the order Promise.all reacted to them
    firstFailed, \* the call of submitAll whose task was the first to fail (or 0)
    newArg,     \* the number a constructor is called with
    newOwner,   \* the class whose constructor is called: "Semaphore", "TaskPool"
    newError,   \* the message of the Error the constructor threw (or "none")
    minWait,    \* the minimum wait expBackoff is built with
    waits,      \* the waits its function returned for the indices 0, 1, 2, ...
    prog,       \* the call under test: "retry", "timeout", "timeoutRetry" (or "none")
    tries,      \* withRetry's number of tries
    tlimit,     \* withTimeout's timeoutInMs
    now,        \* the clock, in ms
    timeoutDue, \* when withTimeout's timer is due (-1: none set, cleared or fired)
    sleepDue,   \* when the timer of withRetry's sleep is due (-1: none)
    fnP,        \* the promise of each call of fn, in call order
    rpc,        \* where withRetry's async function stands
    ri,         \* its loop index i
    lastError,  \* its variable lastError
    retP,       \* the promise withRetry's function returned
    retReg,     \* a reaction is registered on retP
    topP,       \* the promise withTimeout's function returned
    micro,      \* the microtask queue of the program
    got,        \* what the caller's await received
    starts,     \* history: the time of each call of fn
    fails,      \* history: the time withRetry caught the failure of each attempt
    firstEvent, \* history: which of fn settling and the timer firing came first
    callsAtDelivery, \* history: the number of calls of fn when the caller resumed
    atTimeout,  \* history: the promises of fn's calls when withTimeout's timer fired
    opP,        \* the promise of the operation each use call runs under withTimeout
    timer,      \* the timer of that withTimeout: "none", "armed", "cleared", "fired"
    parent,     \* parent[d]: the use call whose operation made call d (0: a caller)
    mutex,      \* the semaphore of a Mutex shared by the tasks of a TaskPool, with
                \* the promises of the Mutex.use call each task makes
    mpc         \* mpc[c]: position of the Mutex.use call made by the task of call c

vars == <<api, capacity, count, queue, kind, pc, issued, released, pst, reg, jobs,
          outcome, result, freed, last, enqOrder, grantOrder, recvOrder, nextCall,
          observing, usedBefore, othersNet, taskOf, pall, psub, seen, arrived, firstFailed,
          newArg, newOwner, newError, minWait, waits, prog, tries, tlimit, now,
          timeoutDue, sleepDue, fnP, rpc, ri, lastError, retP, retReg, topP, micro, got,
          starts, fails, firstEvent, callsAtDelivery,
          atTimeout, opP, timer, parent, mutex, mpc>>

\* the variables of a constructor call under test
newVars == <<newArg, newOwner, newError>>
\* the variables of the functions of async.ts
progVars == <<prog, tries, tlimit, now, timeoutDue, sleepDue, fnP, rpc, ri, lastError,
              retP, retReg, topP, micro, got, starts, fails, firstEvent, callsAtDelivery,
          atTimeout>>
\* the variables of the operations run by use under withTimeout
timedVars == <<opP, timer>>
\* the variables of operations that call the semaphore they run under
nestVars == <<parent, mutex, mpc>>
asyncVars == <<minWait, waits, progVars, timedVars, nestVars>>
\* the variables of a semaphore and of the calls made on it
semVars == <<api, capacity, count, queue, kind, pc, issued, released, pst, reg, jobs,
             outcome, result, freed, last, enqOrder, grantOrder, recvOrder, nextCall,
             observing, usedBefore, othersNet, taskOf, pall, psub, seen, arrived,
             firstFailed>>

\* ------------------------------------------------------- promise machinery
\* The mutable objects an operation touches, passed through the operators below.
Heap == [capacity |-> capacity, count |-> count, queue |-> queue, issued |-> issued,
         released |-> released, pst |-> pst, reg |-> reg, jobs |-> jobs, freed |-> freed,
         enqOrder |-> enqOrder, grantOrder |-> grantOrder]

ReactionJob(c, p) == [type |-> "reaction", call |-> c, p |-> p]
ThenableJob(c, p) == [type |-> "thenable", call |-> c, p |-> p]

\* resolve/reject of promise p of call c: a registered reaction is queued as a job
Settle(h, c, p, st, v) ==
    [h EXCEPT !.pst[c][p] = [st |-> st, val |-> v],
              !.jobs = IF h.reg[c][p] THEN Append(@, ReactionJob(c, p)) ELSE @]

\* p.then(reaction) and `await p`: queue the reaction if p is settled, else register it
Then(h, c, p) ==
    IF h.pst[c][p].st \in {"fulfilled", "rejected"}
    THEN [h EXCEPT !.jobs = Append(@, ReactionJob(c, p))]
    ELSE [h EXCEPT !.reg[c][p] = TRUE]

\* an async function returns the promise `inner`: its own promise `outer` stays
\* pending and a job is queued that will call inner.then(resolve outer)
ReturnPromise(h, c, inner, outer) ==
    [h EXCEPT !.pst[c][outer] = Pending, !.jobs = Append(@, ThenableJob(c, inner))]

\* ------------------------------------------------------------- Semaphore
\* Semaphore.release(): a fresh token closure whose `released` is false
release(h, c) == [h EXCEPT !.issued[c] = TRUE, !.released[c] = FALSE]

\* mutation: the callback omits count++
QueueCallback_noIncrement(h, w) ==
    Settle(release([h EXCEPT !.grantOrder = Append(@, w)], w),
           w, "fut", "fulfilled", TokenOf(w))

\* the callback acquire() pushes on the queue: count++; resolve(this.release())
QueueCallback(h, w) ==
    Settle(release([h EXCEPT !.count = @ + 1, !.grantOrder = Append(@, w)], w),
           w, "fut", "fulfilled", TokenOf(w))

\* mutation: the closure does not test its `released` flag
releaseToken_noFlag(h, t) ==
    IF h.count <= 0
    THEN [h |-> h, ret |-> FALSE]
    ELSE LET h1 == [h EXCEPT !.released[t] = TRUE, !.count = @ - 1, !.freed[t] = @ + 1]
         IN  IF Len(h1.queue) > 0 /\ h1.count < h1.capacity
             THEN [h |-> QueueCallback([h1 EXCEPT !.queue = Tail(@)], Head(h1.queue)),
                   ret |-> TRUE]
             ELSE [h |-> h1, ret |-> TRUE]

\* mutation: the closure serves the newest waiter (queue.pop() for queue.shift())
releaseToken_lifo(h, t) ==
    IF h.released[t] \/ h.count <= 0
    THEN [h |-> h, ret |-> FALSE]
    ELSE LET h1 == [h EXCEPT !.released[t] = TRUE, !.count = @ - 1, !.freed[t] = @ + 1]
         IN  IF Len(h1.queue) > 0 /\ h1.count < h1.capacity
             THEN [h |-> QueueCallback([h1 EXCEPT !.queue = SubSeq(@, 1, Len(@) - 1)],
                                       h1.queue[Len(h1.queue)]),
                   ret |-> TRUE]
             ELSE [h |-> h1, ret |-> TRUE]

\* mutation: the closure frees the slot and leaves the waiters in the queue
releaseToken_noHandoff(h, t) ==
    IF h.released[t] \/ h.count <= 0
    THEN [h |-> h, ret |-> FALSE]
    ELSE [h |-> [h EXCEPT !.released[t] = TRUE, !.count = @ - 1, !.freed[t] = @ + 1],
          ret |-> TRUE]

\* mutation: the guard reads count <= 1 for count <= 0
releaseToken_guardOffByOne(h, t) ==
    IF h.released[t] \/ h.count <= 1
    THEN [h |-> h, ret |-> FALSE]
    ELSE LET h1 == [h EXCEPT !.released[t] = TRUE, !.count = @ - 1, !.freed[t] = @ + 1]
         IN  IF Len(h1.queue) > 0 /\ h1.count < h1.capacity
             THEN [h |-> QueueCallback([h1 EXCEPT !.queue = Tail(@)], Head(h1.queue)),
                   ret |-> TRUE]
             ELSE [h |-> h1, ret |-> TRUE]

\* mutation: the permit goes to the head waiter, which stays in the queue
releaseToken_keepsHead(h, t) ==
    IF h.released[t] \/ h.count <= 0
    THEN [h |-> h, ret |-> FALSE]
    ELSE LET h1 == [h EXCEPT !.released[t] = TRUE, !.count = @ - 1, !.freed[t] = @ + 1]
         IN  IF Len(h1.queue) > 0 /\ h1.count < h1.capacity
             THEN [h |-> QueueCallback(h1, Head(h1.queue)), ret |-> TRUE]
             ELSE [h |-> h1, ret |-> TRUE]

\* mutation: with two waiters queued the head is dropped and the next is served
releaseToken_skipsHead(h, t) ==
    IF h.released[t] \/ h.count <= 0
    THEN [h |-> h, ret |-> FALSE]
    ELSE LET h1 == [h EXCEPT !.released[t] = TRUE, !.count = @ - 1, !.freed[t] = @ + 1]
             q == IF Len(h1.queue) > 1 THEN Tail(h1.queue) ELSE h1.queue
         IN  IF Len(h1.queue) > 0 /\ h1.count < h1.capacity
             THEN [h |-> QueueCallback([h1 EXCEPT !.queue = Tail(q)], Head(q)),
                   ret |-> TRUE]
             ELSE [h |-> h1, ret |-> TRUE]

\* the closure returned by release(): the token's release function
releaseToken(h, t) ==
    IF h.released[t] \/ h.count <= 0
    THEN [h |-> h, ret |-> FALSE]
    ELSE LET h1 == [h EXCEPT !.released[t] = TRUE, !.count = @ - 1, !.freed[t] = @ + 1]
         IN  IF Len(h1.queue) > 0 /\ h1.count < h1.capacity
             THEN [h |-> QueueCallback([h1 EXCEPT !.queue = Tail(@)], Head(h1.queue)),
                   ret |-> TRUE]
             ELSE [h |-> h1, ret |-> TRUE]

\* mutation: the test reads count <= capacity
tryAcquire_offByOne(h, c) ==
    IF h.count <= h.capacity
    THEN [h |-> release([h EXCEPT !.count = @ + 1], c), ret |-> "token"]
    ELSE [h |-> h, ret |-> "null"]

\* mutation: the permit is granted without count++
tryAcquire_noIncrement(h, c) ==
    IF h.count < h.capacity
    THEN [h |-> release(h, c), ret |-> "token"]
    ELSE [h |-> h, ret |-> "null"]

\* Semaphore.tryAcquire()
tryAcquire(h, c) ==
    IF h.count < h.capacity
    THEN [h |-> release([h EXCEPT !.count = @ + 1], c), ret |-> "token"]
    ELSE [h |-> h, ret |-> "null"]

\* mutation: the test reads count <= capacity
acquire_offByOne(h, c) ==
    IF h.count <= h.capacity
    THEN Settle(release([h EXCEPT !.count = @ + 1], c), c, "acq", "fulfilled", TokenOf(c))
    ELSE ReturnPromise([h EXCEPT !.pst[c]["fut"] = Pending,
                                 !.queue = Append(@, c),
                                 !.enqOrder = Append(@, c)],
                       c, "fut", "acq")

\* mutation: a caller that finds no permit is handed a token at once
acquire_resolvesWaiter(h, c) ==
    IF h.count < h.capacity
    THEN Settle(release([h EXCEPT !.count = @ + 1], c), c, "acq", "fulfilled", TokenOf(c))
    ELSE ReturnPromise(release([h EXCEPT !.pst[c]["fut"] =
                                             [st |-> "fulfilled", val |-> TokenOf(c)],
                                         !.enqOrder = Append(@, c)], c),
                       c, "fut", "acq")

\* mutation: a caller that finds no permit is put at the head of the queue
acquire_pushesFront(h, c) ==
    IF h.count < h.capacity
    THEN Settle(release([h EXCEPT !.count = @ + 1], c), c, "acq", "fulfilled", TokenOf(c))
    ELSE ReturnPromise([h EXCEPT !.pst[c]["fut"] = Pending,
                                 !.queue = <<c>> \o @,
                                 !.enqOrder = Append(@, c)],
                       c, "fut", "acq")

\* Semaphore.acquire(): an async function; its promise is "acq"
acquire(h, c) ==
    IF h.count < h.capacity
    THEN Settle(release([h EXCEPT !.count = @ + 1], c), c, "acq", "fulfilled", TokenOf(c))
    ELSE ReturnPromise([h EXCEPT !.pst[c]["fut"] = Pending,
                                 !.queue = Append(@, c),
                                 !.enqOrder = Append(@, c)],
                       c, "fut", "acq")

\* Semaphore.use() up to its first await: const release = await this.acquire()
use(h, c) == Then(acquire([h EXCEPT !.pst[c]["use"] = Pending], c), c, "acq")

\* mutation: release() is called after the try block instead of in finally
useFinally_successOnly(h, c, o) ==
    Settle(IF o.st = "fulfilled" THEN releaseToken(h, c).h ELSE h, c, "use", o.st, o.val)

\* mutation: the error of the operation is caught and replaced
useFinally_replacesError(h, c, o) ==
    Settle(releaseToken(h, c).h, c, "use", o.st,
           IF o.st = "rejected" THEN <<"error", 0>> ELSE o.val)

\* Semaphore.use(): the finally block followed by the return or the rethrow
useFinally(h, c, o) == Settle(releaseToken(h, c).h, c, "use", o.st, o.val)

\* ----------------------------------------------------------------- Mutex
\* Mutex.acquire(): return this.semaphore.acquire()
MutexAcquire(h, c) == ReturnPromise(acquire(h, c), c, "acq", "macq")

\* Mutex.use(): return this.semaphore.use(fn)
MutexUse(h, c) == ReturnPromise(use(h, c), c, "use", "wrap")

\* -------------------------------------------------------------- TaskPool
\* TaskPool.submit(): return this.semaphore.use(task)
submit(h, c) == ReturnPromise(use(h, c), c, "use", "wrap")

\* ---------------------------------------------------------------- numbers
\* A JavaScript number is modelled as a pair <<n, d>>: the fraction n / d for
\* d > 0, and for d = 0 NaN (n = 0), Infinity (n > 0) or -Infinity (n < 0).
Num(n) == <<n, 1>>
Numbers == (-MaxNumerator..MaxNumerator) \X (0..MaxDenominator)
IsFinite(x) == x[2] # 0
\* Number.isInteger(x)
IsInteger(x) == IsFinite(x) /\ x[1] % x[2] = 0
\* x <= y (false when either side is NaN)
Leq(x, y) ==
    CASE IsFinite(x) /\ IsFinite(y) -> x[1] * y[2] <= y[1] * x[2]
      [] x[1] = 0 /\ ~IsFinite(x) -> FALSE
      [] y[1] = 0 /\ ~IsFinite(y) -> FALSE
      [] ~IsFinite(x) -> x[1] < 0 \/ (~IsFinite(y) /\ y[1] > 0)
      [] OTHER -> y[1] > 0
\* the integer an integral number stands for
IntegerOf(x) == x[1] \div x[2]

\* x = y
NumEq(x, y) == Leq(x, y) /\ Leq(y, x)
\* Math.floor(x), Math.max(x, y) and x * y for finite numbers
Floor(x) == Num(x[1] \div x[2])
Max(x, y) == IF Leq(x, y) THEN y ELSE x
Times(x, y) == <<x[1] * y[1], x[2] * y[2]>>
\* Math.pow(2, i) for an index i = 0, 1, 2, ...
RECURSIVE Pow2(_)
Pow2(i) == IF i = 0 THEN 1 ELSE 2 * Pow2(i - 1)

\* ---------------------------------------------------------------- backoff
\* mutation: the wait grows linearly with the attempt index
expBackoff_linear(m, i) ==
    Max(Floor(Times(Num(i + 1), m)), m)

\* expBackoff(minRetryWaitTime)(i)
expBackoff(m, i) ==
    Max(Floor(Times(Num(Pow2(i)), m)), m)

\* ------------------------------------------------- withRetry, withTimeout
\* the objects withRetry's function touches
Async == [fnP |-> fnP, rpc |-> rpc, ri |-> ri, lastError |-> lastError, retP |-> retP,
          sleepDue |-> sleepDue, micro |-> micro, starts |-> starts, fails |-> fails,
          waits |-> waits]

\* what the k-th call of fn returns or throws
AttemptValue(k) == <<"value", k>>
AttemptError(k) == <<"error", k>>
TimeoutError == <<"TimeoutError", 0>>
\* new RetryError(message, lastError): lastError is undefined before any catch
RetryError(e) == <<"RetryError", e[2]>>
\* fn returns a promise that is pending, fulfilled or rejected, or fn throws
Behaviours == {"pending", "fulfilled", "rejected", "throws"}
Attempt(b, k) ==
    CASE b = "pending" -> Pending
      [] b = "fulfilled" -> [st |-> "fulfilled", val |-> AttemptValue(k)]
      [] b = "rejected" -> [st |-> "rejected", val |-> AttemptError(k)]
      [] OTHER -> [st |-> "threw", val |-> AttemptError(k)]
Settled(p) == p.st \in {"fulfilled", "rejected"}

\* the job that reacts to withRetry's promise: the caller's await, or the
\* then() of withTimeout
RetReaction == IF prog = "retry" THEN "deliver" ELSE "onSettle"

\* withRetry's promise settles
SettleRet(a, st, v) ==
    [a EXCEPT !.retP = [st |-> st, val |-> v], !.rpc = "done",
              !.micro = IF retReg THEN Append(@, RetReaction) ELSE @]

\* the argument of setTimeout for wait(i)
WaitMs(i) == IntegerOf(Floor(expBackoff(minWait, i)))

\* mutation: the next attempt is made without waiting
Catch_noWait(a, ex) ==
    [a EXCEPT !.lastError = ex, !.sleepDue = now, !.rpc = "awaitSleep",
              !.fails = Append(@, now),
              !.waits = Append(@, expBackoff(minWait, a.ri))]

\* mutation: the failure of the last attempt is reported without a wait
Catch_throwsAfterLast(a, ex) ==
    IF a.ri + 1 >= tries
    THEN SettleRet([a EXCEPT !.lastError = ex, !.fails = Append(@, now)],
                   "rejected", RetryError(ex))
    ELSE [a EXCEPT !.lastError = ex, !.sleepDue = now + WaitMs(a.ri),
                   !.rpc = "awaitSleep", !.fails = Append(@, now),
                   !.waits = Append(@, expBackoff(minWait, a.ri))]

\* catch (ex) { lastError = ex; await sleep(wait(i)); }
Catch(a, ex) ==
    [a EXCEPT !.lastError = ex, !.sleepDue = now + WaitMs(a.ri), !.rpc = "awaitSleep",
              !.fails = Append(@, now),
              !.waits = Append(@, expBackoff(minWait, a.ri))]

\* mutation: the loop makes one attempt more than tries
withRetryLoop_oneMore(a, b) ==
    IF a.ri > tries
    THEN SettleRet(a, "rejected", RetryError(a.lastError))
    ELSE LET k == Len(a.fnP) + 1
             a1 == [a EXCEPT !.fnP = Append(@, Attempt(b, k)), !.starts = Append(@, now)]
         IN  CASE b = "throws" -> Catch(a1, AttemptError(k))
               [] b = "pending" -> [a1 EXCEPT !.rpc = "awaitFn"]
               [] OTHER -> [a1 EXCEPT !.rpc = "awaitFn", !.micro = Append(@, "resumeFn")]

\* mutation: once withTimeout's timer has fired the loop makes no further attempt
withRetryLoop_cancelled(a, b) ==
    IF atTimeout.fired THEN [a EXCEPT !.rpc = "done"]
    ELSE IF a.ri >= tries
    THEN SettleRet(a, "rejected", RetryError(a.lastError))
    ELSE LET k == Len(a.fnP) + 1
             a1 == [a EXCEPT !.fnP = Append(@, Attempt(b, k)), !.starts = Append(@, now)]
         IN  CASE b = "throws" -> Catch(a1, AttemptError(k))
               [] b = "pending" -> [a1 EXCEPT !.rpc = "awaitFn"]
               [] OTHER -> [a1 EXCEPT !.rpc = "awaitFn", !.micro = Append(@, "resumeFn")]

\* withRetry's loop from its test i < tries to the next await, fn behaving as b
withRetryLoop(a, b) ==
    IF a.ri >= tries
    THEN SettleRet(a, "rejected", RetryError(a.lastError))
    ELSE LET k == Len(a.fnP) + 1
             a1 == [a EXCEPT !.fnP = Append(@, Attempt(b, k)), !.starts = Append(@, now)]
         IN  CASE b = "throws" -> Catch(a1, AttemptError(k))
               [] b = "pending" -> [a1 EXCEPT !.rpc = "awaitFn"]
               [] OTHER -> [a1 EXCEPT !.rpc = "awaitFn", !.micro = Append(@, "resumeFn")]

\* withRetry resumes from `await fn(...)`: return the value, or catch
withRetryResume(a) ==
    LET p == a.fnP[Len(a.fnP)]
    IN  IF p.st = "fulfilled" THEN SettleRet(a, "fulfilled", p.val)
        ELSE Catch(a, p.val)

\* the functions of a promise's executor: the first call settles the promise
pass(p, v) == IF p.st = "pending" THEN [st |-> "fulfilled", val |-> v] ELSE p
fail(p, e) == IF p.st = "pending" THEN [st |-> "rejected", val |-> e] ELSE p

\* withTimeout's onPass
onPass(p, value) == pass(p, value)

\* mutation: onFail reports a failure of asyncFn as a timeout
onFail_asTimeout(p, error) == fail(p, TimeoutError)

\* withTimeout's onFail
onFail(p, error) == fail(p, error)

\* mutation: the timer's callback fails with a RetryError
onTimeout_asRetryError(p) == fail(p, RetryError(NoValue))

\* withTimeout's timer callback: () => fail(new TimeoutError())
onTimeout(p) == fail(p, TimeoutError)

\* then() or await on withRetry's promise, right after the call returned it
ThenRet(a) ==
    IF Settled(a.retP) THEN [a EXCEPT !.micro = Append(@, RetReaction)] ELSE a

\* ------------------------------------------------------------ construction
InvalidCapacity == "Semaphore capacity must be a positive integer"
NoSemaphore == [ok |-> FALSE, error |-> InvalidCapacity, capacity |-> 0, count |-> 0,
                queue |-> <<>>]

\* mutation: the counter starts at 1
Semaphore_countStartsAtOne(x) ==
    IF Leq(x, Num(0)) \/ ~IsInteger(x)
    THEN NoSemaphore
    ELSE [ok |-> TRUE, error |-> "none", capacity |-> IntegerOf(x), count |-> 1,
          queue |-> <<>>]

\* mutation: the constructor only rejects capacities <= 0
Semaphore_noIntegerTest(x) ==
    IF Leq(x, Num(0))
    THEN NoSemaphore
    ELSE [ok |-> TRUE, error |-> "none",
          capacity |-> IF IsFinite(x) THEN IntegerOf(x) ELSE 0, count |-> 0,
          queue |-> <<>>]

\* new Semaphore(capacity): the constructor throws if capacity <= 0 or capacity
\* is no integer, else it sets the capacity next to the field initialisers
\* count = 0 and queue = []
Semaphore(x) ==
    IF Leq(x, Num(0)) \/ ~IsInteger(x)
    THEN NoSemaphore
    ELSE [ok |-> TRUE, error |-> "none", capacity |-> IntegerOf(x), count |-> 0,
          queue |-> <<>>]

\* mutation: the Mutex is built on a semaphore of two permits
MutexSemaphore_twoPermits == Semaphore(Num(2))

\* Mutex: private semaphore = new Semaphore(1)
MutexSemaphore == Semaphore(Num(1))

\* the semaphores behind a Semaphore, a Mutex or a TaskPool (new TaskPool(n)
\* builds new Semaphore(n))
Constructions(owner) ==
    IF owner = "Mutex" THEN {MutexSemaphore}
    ELSE {Semaphore(Num(cap)) : cap \in 1..MaxCapacity}

\* ------------------------------------------------------------------ state
\* the tokens issued to the calls of set S, less the tokens of calls of S that
\* returned their permit, in the step that leads to heap h
TakenBy(h, S) ==
    Cardinality({d \in S : h.issued[d] /\ ~issued[d]})
        - Cardinality({d \in S : h.freed[d] > freed[d]})

\* the heap after a step; `used` as it was before a use call is kept, and the
\* permits the other calls take and free are counted, until the call settles
Commit(h) ==
    /\ count' = h.count
    /\ queue' = h.queue
    /\ issued' = h.issued
    /\ released' = h.released
    /\ pst' = h.pst
    /\ reg' = h.reg
    /\ jobs' = h.jobs
    /\ freed' = h.freed
    /\ enqOrder' = h.enqOrder
    /\ grantOrder' = h.grantOrder
    /\ observing' = observing
    /\ IF observing
       THEN /\ usedBefore' = [c \in Calls |->
                  IF pst[c]["use"] = Pending THEN usedBefore[c]
                  ELSE IF h.pst[c]["use"] = Pending THEN count + TakenBy(h, 1..(c - 1))
                  ELSE 0]
            /\ othersNet' = [c \in Calls |->
                  IF pst[c]["use"] = Pending THEN othersNet[c] + TakenBy(h, Calls \ {c})
                  ELSE IF h.pst[c]["use"] = Pending THEN TakenBy(h, (c + 1)..MaxCalls)
                  ELSE 0]
       ELSE UNCHANGED <<usedBefore, othersNet>>

\* the operation just executed: its result and the state it started from
Event(op, c, ret) ==
    [op |-> op, call |-> c, ret |-> ret, count0 |-> count, queue0 |-> queue,
     released0 |-> released[c]]

\* a step of the run time or of a caller that calls no Semaphore operation
Internal ==
    [op |-> "internal", call |-> 0, ret |-> "none", count0 |-> 0, queue0 |-> <<>>,
     released0 |-> FALSE]

\* the operation of call c ends with outcome o: the first task of submitAll
\* to fail is remembered
Fails(c, o) ==
    firstFailed' = IF o.st = "rejected" /\ taskOf[c] # 0 /\ firstFailed = 0
                   THEN c ELSE firstFailed

\* the state of a promise that holds a list of values or an error
NoList == [st |-> "none", values |-> <<>>, reason |-> NoValue]

\* the caller of a queued acquire resumes with its token
Received(c) ==
    recvOrder' = IF \E i \in 1..Len(enqOrder) : enqOrder[i] = c
                 THEN Append(recvOrder, c) ELSE recvOrder

\* no Mutex has been constructed beside the object under test
NoMutex == [capacity |-> 0, count |-> 0, queue |-> <<>>]

\* new Mutex(): its semaphore = new Semaphore(1), no call made on it yet
SharedMutex ==
    [capacity |-> MutexSemaphore.capacity, count |-> MutexSemaphore.count,
     queue |-> MutexSemaphore.queue,
     issued |-> [c \in Calls |-> FALSE], released |-> [c \in Calls |-> FALSE],
     pst |-> [c \in Calls |-> [p \in Proms |-> NoPromise]],
     reg |-> [c \in Calls |-> [p \in Proms |-> FALSE]],
     jobs |-> <<>>, freed |-> [c \in Calls |-> 0],
     enqOrder |-> <<>>, grantOrder |-> <<>>]

\* no function of async.ts is in use
NotCalled ==
    /\ now = 0 /\ timeoutDue = -1 /\ sleepDue = -1
    /\ fnP = <<>> /\ rpc = "idle" /\ ri = 0 /\ lastError = NoValue
    /\ retP = NoPromise /\ retReg = FALSE /\ topP = NoPromise
    /\ micro = <<>> /\ got = NoPromise
    /\ starts = <<>> /\ fails = <<>> /\ firstEvent = "none" /\ callsAtDelivery = 0
    /\ atTimeout = [fired |-> FALSE, fnP |-> <<>>]
    /\ opP = [c \in Calls |-> NoPromise]
    /\ timer = [c \in Calls |-> "none"]
    /\ parent = [c \in Calls |-> 0]
    /\ mutex = NoMutex
    /\ mpc = [c \in Calls |-> "idle"]

NoProgram ==
    /\ minWait = Num(1)
    /\ waits = <<>>
    /\ prog = "none" /\ tries = 0 /\ tlimit = 0
    /\ NotCalled

\* no call has been made on the semaphore
NoCalls ==
    /\ kind = [c \in Calls |-> "idle"]
    /\ pc = [c \in Calls |-> "idle"]
    /\ issued = [c \in Calls |-> FALSE]
    /\ released = [c \in Calls |-> FALSE]
    /\ pst = [c \in Calls |-> [p \in Proms |-> NoPromise]]
    /\ reg = [c \in Calls |-> [p \in Proms |-> FALSE]]
    /\ jobs = <<>>
    /\ outcome = [c \in Calls |-> NoPromise]
    /\ result = [c \in Calls |-> NoPromise]
    /\ freed = [c \in Calls |-> 0]
    /\ last = Internal
    /\ enqOrder = <<>>
    /\ grantOrder = <<>>
    /\ recvOrder = <<>>
    /\ nextCall = 1
    /\ usedBefore = [c \in Calls |-> 0]
    /\ othersNet = [c \in Calls |-> 0]
    /\ taskOf = [c \in Calls |-> 0]
    /\ pall = [st |-> "none", values |-> <<>>, reason |-> NoValue,
               remaining |-> 0, reg |-> FALSE]
    /\ psub = NoList
    /\ seen = NoList
    /\ firstFailed = 0
    /\ arrived = <<>>

Constructed(watch) ==
    /\ observing = watch
    /\ api \in {"Semaphore", "Mutex", "TaskPool"}
    /\ \E s \in Constructions(api) :
          /\ s.ok
          /\ capacity = s.capacity
          /\ count = s.count
          /\ queue = s.queue
    /\ NoCalls
    /\ newArg = Num(capacity) /\ newOwner = api /\ newError = "none"
    /\ NoProgram

Init == Constructed(FALSE)

\* a caller issues its call: calls are numbered in the order they are made
Issue(c, k, owner, position) ==
    /\ c = nextCall
    /\ api = owner
    /\ kind' = [kind EXCEPT ![c] = k]
    /\ pc' = [pc EXCEPT ![c] = position]
    /\ nextCall' = c + 1
    /\ UNCHANGED <<api, capacity, newVars, asyncVars, taskOf, pall, psub, seen,
                outcome, firstFailed, arrived, result, recvOrder>>

\* the caller awaits promise p of its call
Awaited(h, c, p) == [h EXCEPT !.reg[c][p] = TRUE]

CallTryAcquire(c) ==
    LET r == tryAcquire(Heap, c)
    IN  /\ Issue(c, "tryAcquire", "Semaphore", IF r.ret = "token" THEN "holding" ELSE "null")
        /\ Commit(r.h)
        /\ last' = Event("tryAcquire", c, r.ret)

CallAcquire(c) ==
    /\ Issue(c, "acquire", "Semaphore", "waiting")
    /\ Commit(Then(acquire(Heap, c), c, "acq"))
    /\ last' = Event("acquire", c, "promise")

CallUse(c) ==
    /\ Issue(c, "use", "Semaphore", "acquiring")
    /\ Commit(Awaited(use(Heap, c), c, "use"))
    /\ last' = Event("use", c, "promise")

CallMutexAcquire(c) ==
    /\ Issue(c, "Mutex.acquire", "Mutex", "waiting")
    /\ Commit(Awaited(MutexAcquire(Heap, c), c, "macq"))
    /\ last' = Event("acquire", c, "promise")

CallMutexUse(c) ==
    /\ Issue(c, "Mutex.use", "Mutex", "acquiring")
    /\ Commit(Awaited(MutexUse(Heap, c), c, "wrap"))
    /\ last' = Event("use", c, "promise")

CallSubmit(c) ==
    /\ Issue(c, "submit", "TaskPool", "acquiring")
    /\ Commit(Awaited(submit(Heap, c), c, "wrap"))
    /\ last' = Event("use", c, "promise")

\* the holder of a token calls it (any number of times)
CallRelease(c) ==
    /\ pc[c] = "holding"
    /\ LET r == releaseToken(Heap, c)
       IN  /\ Commit(r.h)
           /\ last' = Event("release", c, r.ret)
    /\ UNCHANGED <<api, capacity, newVars, asyncVars, taskOf, pall, psub, seen, kind,
                pc, outcome, firstFailed, arrived, result, recvOrder, nextCall>>

\* ------------------------------------------------------ the microtask queue
JobHead(t, p) == jobs # <<>> /\ Head(jobs).type = t /\ Head(jobs).p = p
Popped == [Heap EXCEPT !.jobs = Tail(jobs)]
UseKinds == {"use", "Mutex.use", "submit"}

\* NewPromiseResolveThenableJob: calls then() on the returned promise
RunThenable ==
    /\ jobs # <<>> /\ Head(jobs).type = "thenable"
    /\ Commit(Then(Popped, Head(jobs).call, Head(jobs).p))
    /\ last' = Internal
    /\ UNCHANGED <<api, capacity, newVars, asyncVars, taskOf, pall, psub, seen, kind,
                pc, outcome, firstFailed, arrived, result, recvOrder, nextCall>>

\* the reaction of `inner` resolves the promise of the async function that returned it
Adopt(inner, outer, kinds) ==
    /\ JobHead("reaction", inner)
    /\ LET c == Head(jobs).call
       IN  /\ kind[c] \in kinds
           /\ Commit(Settle(Popped, c, outer, pst[c][inner].st, pst[c][inner].val))
           /\ last' = Internal
    /\ UNCHANGED <<api, capacity, newVars, asyncVars, taskOf, pall, psub, seen, kind,
                pc, outcome, firstFailed, arrived, result, recvOrder, nextCall>>

AdoptFut == Adopt("fut", "acq", {"acquire", "Mutex.acquire"} \cup UseKinds)
AdoptAcq == Adopt("acq", "macq", {"Mutex.acquire"})
AdoptUse == Adopt("use", "wrap", {"Mutex.use", "submit"})

\* the promise the caller awaits
Outer(k) ==
    CASE k = "acquire" -> "acq"
      [] k = "Mutex.acquire" -> "macq"
      [] k = "use" -> "use"
      [] OTHER -> "wrap"

\* `await acquire()` of a caller resumes: the caller holds the token
ReceiveToken ==
    /\ jobs # <<>> /\ Head(jobs).type = "reaction"
    /\ LET c == Head(jobs).call
       IN  /\ kind[c] \in {"acquire", "Mutex.acquire"}
           /\ Head(jobs).p = Outer(kind[c])
           /\ pc' = [pc EXCEPT ![c] = "holding"]
           /\ last' = Internal
           /\ Received(c)
    /\ Commit(Popped)
    /\ UNCHANGED <<api, capacity, newVars, asyncVars, taskOf, pall, psub, seen,
                kind, outcome, firstFailed, arrived, result, nextCall>>

\* use() resumes with the token and calls fn(), which throws before returning
BodyThrows ==
    /\ JobHead("reaction", "acq")
    /\ LET c == Head(jobs).call
       IN  /\ kind[c] \in UseKinds
           /\ Commit(useFinally(Popped, c, Thrown(c)))
           /\ outcome' = [outcome EXCEPT ![c] = Thrown(c)]
           /\ Fails(c, Thrown(c))
           /\ pc' = [pc EXCEPT ![c] = "settled"]
           /\ last' = Event("throw", c, releaseToken(Popped, c).ret)
           /\ Received(c)
    /\ UNCHANGED <<api, capacity, newVars, asyncVars, arrived, taskOf, pall, psub,
                seen, kind, result, nextCall>>

\* fn() returns a value or an already settled promise, which use() awaits
BodySettled ==
    /\ JobHead("reaction", "acq")
    /\ \E o \in Outcomes(Head(jobs).call) :
       LET c == Head(jobs).call
       IN  /\ kind[c] \in UseKinds
           /\ Commit(Then([Popped EXCEPT !.pst[c]["body"] = o], c, "body"))
           /\ outcome' = [outcome EXCEPT ![c] = o]
           /\ Fails(c, o)
           /\ pc' = [pc EXCEPT ![c] = "finishing"]
           /\ last' = Event("body", c, "none")
           /\ Received(c)
    /\ UNCHANGED <<api, capacity, newVars, asyncVars, arrived, taskOf, pall, psub,
                seen, kind, result, nextCall>>

\* fn() returns a pending promise, which use() awaits: the body is running
BodySuspends ==
    /\ JobHead("reaction", "acq")
    /\ LET c == Head(jobs).call
       IN  /\ kind[c] \in UseKinds
           /\ Commit(Then([Popped EXCEPT !.pst[c]["body"] = Pending], c, "body"))
           /\ pc' = [pc EXCEPT ![c] = "body"]
           /\ last' = Event("body", c, "none")
           /\ Received(c)
    /\ UNCHANGED <<api, capacity, newVars, asyncVars, taskOf, pall, psub, seen,
                kind, outcome, firstFailed, arrived, result, nextCall>>

\* a running body finishes: the promise fn() returned settles
FinishBody(c) ==
    /\ pc[c] = "body"
    /\ \E o \in Outcomes(c) :
       /\ Commit(Settle(Heap, c, "body", o.st, o.val))
       /\ outcome' = [outcome EXCEPT ![c] = o]
       /\ Fails(c, o)
    /\ pc' = [pc EXCEPT ![c] = "finishing"]
    /\ last' = Internal
    /\ UNCHANGED <<api, capacity, newVars, asyncVars, arrived, taskOf, pall, psub, seen,
                kind, result, recvOrder, nextCall>>

\* use() resumes after `await fn()`: finally { release() }, then return or rethrow
UseResumes ==
    /\ JobHead("reaction", "body")
    /\ LET c == Head(jobs).call
       IN  /\ Commit(useFinally(Popped, c, pst[c]["body"]))
           /\ pc' = [pc EXCEPT ![c] = "settled"]
           /\ last' = Event("finally", c, releaseToken(Popped, c).ret)
    /\ UNCHANGED <<api, capacity, newVars, asyncVars, taskOf, pall, psub, seen, kind,
                outcome, firstFailed, arrived, result, recvOrder, nextCall>>

\* the caller of use / Mutex.use / submit observes the outcome
Observe ==
    /\ jobs # <<>> /\ Head(jobs).type = "reaction"
    /\ LET c == Head(jobs).call
       IN  /\ kind[c] \in UseKinds
           /\ taskOf[c] = 0
           /\ Head(jobs).p = Outer(kind[c])
           /\ pc' = [pc EXCEPT ![c] = "observed"]
           /\ result' = [result EXCEPT ![c] = pst[c][Outer(kind[c])]]
           /\ last' = Internal
    /\ Commit(Popped)
    /\ UNCHANGED <<api, capacity, newVars, asyncVars, taskOf, pall, psub, seen,
                kind, outcome, firstFailed, arrived, recvOrder, nextCall>>

\* ------------------------------------------------------ TaskPool.submitAll
\* tasks.map((task) => this.submit(task)): one submit call per task, in order
RECURSIVE SubmitEach(_, _, _)
SubmitEach(h, c, n) ==
    IF n = 0 THEN h ELSE SubmitEach(submit(h, c), c + 1, n - 1)

\* Promise.all calls then() on each promise of the list
RECURSIVE ThenEach(_, _, _)
ThenEach(h, c, n) ==
    IF n = 0 THEN h ELSE ThenEach(Awaited(h, c, "wrap"), c + 1, n - 1)

\* the call that runs the i-th task of the list, calls first, first + 1, ...
\* being the submit calls of map
TaskIndex(first, n) ==
    [c \in Calls |-> IF c \in first..(first + n - 1) THEN c - first + 1 ELSE taskOf[c]]

\* mutation: Promise.all of an empty list waits for a promise to settle
PromiseAll_waitsForOne(n) ==
    [st |-> "pending",
     values |-> [i \in 1..n |-> NoValue], reason |-> NoValue,
     remaining |-> n, reg |-> FALSE]

\* Promise.all(list of n promises): fulfilled at once with [] for an empty list
PromiseAll(n) ==
    [st |-> IF n = 0 THEN "fulfilled" ELSE "pending",
     values |-> [i \in 1..n |-> NoValue], reason |-> NoValue,
     remaining |-> n, reg |-> FALSE]

\* mutation: Promise.all collects the values in the order they arrive
PromiseAllElement_arrivalOrder(a, i, p) ==
    IF p.st = "rejected"
    THEN IF a.st = "pending" THEN [a EXCEPT !.st = "rejected", !.reason = p.val] ELSE a
    ELSE LET a1 == [a EXCEPT !.values[Len(a.values) - a.remaining + 1] = p.val,
                             !.remaining = @ - 1]
         IN  IF a1.remaining = 0 /\ a.st = "pending"
             THEN [a1 EXCEPT !.st = "fulfilled"] ELSE a1

\* mutation: Promise.all waits for every promise and reports the error of the
\* failed promise that comes first in the list
PromiseAllElement_listOrder(a, i, p) ==
    LET a1 == [a EXCEPT !.values[i] = p, !.remaining = @ - 1]
        bad == {j \in 1..Len(a1.values) : a1.values[j].st = "rejected"}
    IN  IF a1.remaining > 0 THEN a1
        ELSE IF bad = {} THEN [a1 EXCEPT !.st = "fulfilled"]
        ELSE [a1 EXCEPT !.st = "rejected",
                        !.reason = a1.values[CHOOSE j \in bad : \A k \in bad : j <= k].val]

\* Promise.all's reaction to the i-th promise p of the list: a value is stored
\* at index i and the last value fulfils the promise; an error rejects it
PromiseAllElement(a, i, p) ==
    IF p.st = "rejected"
    THEN IF a.st = "pending" THEN [a EXCEPT !.st = "rejected", !.reason = p.val] ELSE a
    ELSE LET a1 == [a EXCEPT !.values[i] = p.val, !.remaining = @ - 1]
         IN  IF a1.remaining = 0 /\ a.st = "pending"
             THEN [a1 EXCEPT !.st = "fulfilled"] ELSE a1

AllThenableJob == [type |-> "allThenable", call |-> 0, p |-> "all"]
AllReactionJob(p) == [type |-> "allReaction", call |-> 0, p |-> p]

\* TaskPool.submitAll(tasks) with n tasks, up to the return of Promise.all's
\* promise from the async function
CallSubmitAll(n) ==
    /\ api = "TaskPool"
    /\ pall.st = "none"
    /\ nextCall + n <= MaxCalls + 1
    /\ LET first == nextCall
           h == ThenEach(SubmitEach(Heap, first, n), first, n)
       IN  /\ Commit([h EXCEPT !.jobs = Append(@, AllThenableJob)])
           /\ taskOf' = TaskIndex(first, n)
           /\ kind' = [c \in Calls |-> IF TaskIndex(first, n)[c] # taskOf[c]
                                       THEN "submit" ELSE kind[c]]
           /\ pc' = [c \in Calls |-> IF TaskIndex(first, n)[c] # taskOf[c]
                                     THEN "acquiring" ELSE pc[c]]
           /\ nextCall' = first + n
    /\ pall' = PromiseAll(n)
    /\ psub' = [NoList EXCEPT !.st = "pending"]
    /\ last' = [Internal EXCEPT !.op = "submitAll", !.count0 = count, !.queue0 = queue]
    /\ UNCHANGED <<api, capacity, newVars, asyncVars, outcome, firstFailed, arrived, result, recvOrder, seen>>

\* NewPromiseResolveThenableJob of submitAll: then() on Promise.all's promise
AllThenable ==
    /\ jobs # <<>> /\ Head(jobs).type = "allThenable"
    /\ IF pall.st = "pending"
       THEN pall' = [pall EXCEPT !.reg = TRUE] /\ Commit(Popped)
       ELSE pall' = pall
            /\ Commit([Popped EXCEPT !.jobs = Append(@, AllReactionJob("all"))])
    /\ last' = Internal
    /\ UNCHANGED <<api, capacity, newVars, asyncVars, taskOf, psub, seen, kind, pc, outcome,
                   firstFailed, arrived, result, recvOrder, nextCall>>

\* the promise of one submit call of submitAll has settled: Promise.all reacts
AllElement ==
    /\ JobHead("reaction", "wrap")
    /\ LET c == Head(jobs).call
           a == PromiseAllElement(pall, taskOf[c], pst[c]["wrap"])
       IN  /\ taskOf[c] # 0
           /\ pall' = a
           /\ Commit(IF a.st # pall.st /\ pall.reg
                     THEN [Popped EXCEPT !.jobs = Append(@, AllReactionJob("all"))]
                     ELSE Popped)
           /\ pc' = [pc EXCEPT ![c] = "observed"]
           /\ result' = [result EXCEPT ![c] = pst[c]["wrap"]]
           /\ arrived' = Append(arrived, c)
    /\ last' = Internal
    /\ UNCHANGED <<api, capacity, newVars, asyncVars, taskOf, psub, seen, kind, outcome, firstFailed,
                   recvOrder, nextCall>>

\* the reaction of Promise.all's promise settles the promise of submitAll
AllAdopt ==
    /\ jobs # <<>> /\ Head(jobs) = AllReactionJob("all")
    /\ psub' = [st |-> pall.st,
                values |-> IF pall.st = "fulfilled" THEN pall.values ELSE <<>>,
                reason |-> pall.reason]
    /\ Commit([Popped EXCEPT !.jobs = Append(@, AllReactionJob("sub"))])
    /\ last' = Internal
    /\ UNCHANGED <<api, capacity, newVars, asyncVars, taskOf, pall, seen, kind, pc, outcome,
                   firstFailed, arrived, result, recvOrder, nextCall>>

\* the caller of submitAll observes the outcome
SubmitAllObserved ==
    /\ jobs # <<>> /\ Head(jobs) = AllReactionJob("sub")
    /\ seen' = psub
    /\ Commit(Popped)
    /\ last' = Internal
    /\ UNCHANGED <<api, capacity, newVars, asyncVars, taskOf, pall, psub, kind, pc, outcome,
                   firstFailed, arrived, result, recvOrder, nextCall>>

Next ==
    \/ \E c \in Calls : CallTryAcquire(c)
    \/ \E c \in Calls : CallAcquire(c)
    \/ \E c \in Calls : CallUse(c)
    \/ \E c \in Calls : CallMutexAcquire(c)
    \/ \E c \in Calls : CallMutexUse(c)
    \/ \E c \in Calls : CallSubmit(c)
    \/ \E c \in Calls : CallRelease(c)
    \/ RunThenable
    \/ AdoptFut
    \/ AdoptAcq
    \/ AdoptUse
    \/ ReceiveToken
    \/ BodyThrows
    \/ BodySettled
    \/ BodySuspends
    \/ \E c \in Calls : FinishBody(c)
    \/ UseResumes
    \/ Observe

Spec == Init /\ [][Next]_vars

\* a Semaphore whose callers are observed: `used` is read before each use call
InitUse == Constructed(TRUE) /\ api = "Semaphore"

NextUse ==
    \/ \E c \in Calls : CallTryAcquire(c)
    \/ \E c \in Calls : CallAcquire(c)
    \/ \E c \in Calls : CallUse(c)
    \/ \E c \in Calls : CallRelease(c)
    \/ RunThenable
    \/ AdoptFut
    \/ ReceiveToken
    \/ BodyThrows
    \/ BodySettled
    \/ BodySuspends
    \/ \E c \in Calls : FinishBody(c)
    \/ UseResumes
    \/ Observe

SpecUse == InitUse /\ [][NextUse]_vars

\* a TaskPool on which submitAll is called
InitPool == Init /\ api = "TaskPool"

NextPool ==
    \/ \E n \in 0..MaxCalls : CallSubmitAll(n)
    \/ RunThenable
    \/ AdoptFut
    \/ AdoptUse
    \/ BodyThrows
    \/ BodySettled
    \/ BodySuspends
    \/ \E c \in Calls : FinishBody(c)
    \/ UseResumes
    \/ AllThenable
    \/ AllElement
    \/ AllAdopt
    \/ SubmitAllObserved

SpecPool == InitPool /\ [][NextPool]_vars

\* the event loop runs the job at the head of the microtask queue
RunJob ==
    \/ RunThenable
    \/ AdoptFut
    \/ AdoptUse
    \/ BodyThrows
    \/ BodySettled
    \/ BodySuspends
    \/ UseResumes
    \/ AllThenable
    \/ AllElement
    \/ AllAdopt
    \/ SubmitAllObserved

\* the microtask queue is drained, and the promise of a started task settles:
\* the pool does not stop while a job is queued or a task is in its body
Progress == RunJob \/ \E c \in Calls : FinishBody(c)

SpecPoolFair == SpecPool /\ WF_vars(Progress)

\* ------------------------------------------------------------------ types
TypeOK ==
    /\ count \in Int
    /\ capacity \in 1..MaxCapacity
    /\ \A i \in 1..Len(queue) : queue[i] \in Calls

\* ----------------------------------------------------------- definitions
used == count
permits == capacity - count
Outstanding == {c \in Calls : issued[c] /\ ~released[c]}
Running == {c \in Calls : pc[c] = "body"}
ReleaseOps == {"release", "finally", "throw"}
IsPrefix(s, t) == Len(s) <= Len(t) /\ \A i \in 1..Len(s) : s[i] = t[i]
Queued(c) == \E i \in 1..Len(queue) : queue[i] = c
Begun(c) == pc[c] \in {"body", "finishing", "settled", "observed"}
Completed(c) == pc[c] \in {"settled", "observed"}
WasQueued(c) == \E i \in 1..Len(enqOrder) : enqOrder[i] = c
Granted(c) == \E i \in 1..Len(grantOrder) : grantOrder[i] = c
TokensFreed == Cardinality({c \in Calls : freed[c] > 0})
tasks == used
Members == {c \in Calls : taskOf[c] # 0}
Runners(i) == {c \in Members : taskOf[c] = i}
MembersDone == \A c \in Members : pc[c] = "observed"

\* ------------------------------------------------------------------ claims
\* C1: in every reachable state of a Semaphore, under any interleaving of
\* tryAcquire, acquire, use and token releases (repeated releases of one token
\* included), 0 <= used <= capacity.
C1_UsedWithinCapacity == 0 <= used /\ used <= capacity

\* a token is released a second time while every permit is held again
C1_Witness ==
    /\ last.op = "release" /\ last.released0 /\ last.ret = FALSE
    /\ used = capacity

\* C2: used equals the number of outstanding tokens: those issued (by tryAcquire,
\* by an immediate acquire or by a hand-off to a queued waiter) whose release
\* function has not yet returned true.
C2_UsedCountsOutstandingTokens == used = Cardinality(Outstanding)

\* a token handed to a queued waiter is outstanding while another was released
C2_Witness ==
    /\ \E w \in Outstanding : \E i \in 1..Len(grantOrder) : grantOrder[i] = w
    /\ \E c \in Calls : issued[c] /\ released[c]

\* C3: for a Semaphore of capacity c (and a TaskPool of concurrency c) the number
\* of operation bodies started inside use/submit and not yet finished never
\* exceeds c; a body that starts never finds c other bodies running.
C3_RunningBodiesWithinCapacity ==
    /\ Cardinality(Running) <= capacity
    /\ last.op \in {"body", "throw"} => Cardinality(Running \cup {last.call}) <= capacity

\* a pool of concurrency 2 runs two bodies while a third submit waits in the queue
C3_Witness ==
    /\ api = "TaskPool" /\ capacity = 2
    /\ Cardinality(Running) = 2
    /\ \E c \in Calls : Queued(c) /\ kind[c] = "submit"

\* C4: queued acquirers are granted permits strictly in the order in which their
\* acquire calls were enqueued, and their callers resume with the token in that
\* order.
C4_QueueIsFifo ==
    /\ IsPrefix(grantOrder, enqOrder)
    /\ IsPrefix(recvOrder, grantOrder)
    /\ \A i \in 1..Len(queue) : queue[i] = enqOrder[Len(grantOrder) + i]

\* two waiters were queued behind a held permit and both have resumed with
\* their tokens
C4_Witness ==
    /\ Len(enqOrder) = 2
    /\ Len(recvOrder) = 2

\* C5: no barging: while the wait queue is non-empty a tryAcquire returns null
\* and a new acquire is enqueued behind the waiters; a slot freed by release
\* goes to the head waiter in the same step and is never visible as free.
C5_NoBarging ==
    /\ (last.op = "tryAcquire" /\ last.queue0 # <<>>) =>
            last.ret = "null" /\ ~issued[last.call]
    /\ (last.op \in {"acquire", "use"} /\ last.queue0 # <<>>) =>
            queue = Append(last.queue0, last.call) /\ ~issued[last.call]
    /\ (last.op \in ReleaseOps /\ last.ret = TRUE /\ last.queue0 # <<>>) =>
            /\ queue = Tail(last.queue0)
            /\ Head(last.queue0) \in Outstanding
            /\ used = last.count0
    /\ queue # <<>> => used = capacity

\* a tryAcquire made while a waiter is queued is refused
C5_Witness ==
    /\ last.op = "tryAcquire" /\ last.queue0 # <<>> /\ last.ret = "null"
    /\ pc[last.call] = "null"

\* C6: release is idempotent per token: once a token's release function has
\* returned true, every later call returns false and changes neither used nor
\* the wait queue, even if others acquired permits in the meantime.
C6_ReleaseIdempotent ==
    (last.op \in ReleaseOps /\ last.released0) =>
        /\ last.ret = FALSE
        /\ used = last.count0
        /\ queue = last.queue0
        /\ released[last.call] /\ freed[last.call] = 1

\* a released token is called again while another caller holds a permit and a
\* waiter is queued
C6_Witness ==
    /\ last.op = "release" /\ last.released0
    /\ last.count0 > 0 /\ last.queue0 # <<>>
    /\ last.ret = FALSE

\* C7 as stated: the first call of a token's release function returns true and
\* leaves used exactly 1 lower than it was immediately before the call.
C7_FirstReleaseLowersUsed ==
    (last.op \in ReleaseOps /\ ~last.released0) =>
        last.ret = TRUE /\ used = last.count0 - 1

\* C7 amended: the first call returns true and frees one permit; used is left 1
\* lower when no waiter is queued, and unchanged when the permit is handed to
\* the head waiter within the same call.
C7_FirstReleaseFreesOnePermit ==
    (last.op \in ReleaseOps /\ ~last.released0) =>
        /\ last.ret = TRUE
        /\ released[last.call]
        /\ used = IF last.queue0 = <<>> THEN last.count0 - 1 ELSE last.count0

\* a token is released for the first time while a waiter is queued
C7_Witness ==
    /\ last.op \in ReleaseOps /\ ~last.released0 /\ last.ret = TRUE
    /\ last.queue0 # <<>>
    /\ used = capacity

\* C8: tryAcquire returns a token iff used < capacity at call time; on success
\* used increases by exactly 1 and the queue is unchanged; on failure it returns
\* null, used is unchanged and no queue entry is created.
C8_TryAcquire ==
    last.op = "tryAcquire" =>
        /\ last.ret = "token" <=> last.count0 < capacity
        /\ last.ret \in {"token", "null"}
        /\ queue = last.queue0
        /\ last.ret = "token" => used = last.count0 + 1 /\ last.call \in Outstanding
        /\ last.ret = "null" => used = last.count0 /\ ~issued[last.call]

\* a tryAcquire fails on a full semaphore with an empty queue, after an earlier
\* permit was released and taken again
C8_Witness ==
    /\ last.op = "tryAcquire" /\ last.ret = "null"
    /\ last.queue0 = <<>> /\ last.count0 = capacity
    /\ \E c \in Calls : released[c]

\* C9: use releases its permit exactly once on every exit path: the token is
\* held while the operation runs and has been released, by a single call of its
\* release function, once the use call has settled and before its caller
\* observes the outcome, whether the operation returned or failed.
C9_UseReleasesOnce ==
    \A c \in Calls : kind[c] \in UseKinds =>
        /\ pc[c] \in {"body", "finishing"} => c \in Outstanding /\ freed[c] = 0
        /\ pc[c] \in {"settled", "observed"} =>
                issued[c] /\ released[c] /\ freed[c] = 1
        /\ pst[c]["use"].st \in {"fulfilled", "rejected"} => released[c]

\* the caller of a use on a mutex has observed a failure and a later call on
\* the same mutex has been given the permit
C9_Witness ==
    /\ api = "Mutex"
    /\ \E c, d \in Calls :
        /\ c < d
        /\ kind[c] = "Mutex.use" /\ pc[c] = "observed" /\ result[c].st = "rejected"
        /\ d \in Outstanding

\* C10: use, Mutex.use and TaskPool.submit are transparent to the operation's
\* outcome: the caller observes exactly the value the operation returned, or
\* exactly the error it produced.
C10_OutcomeTransparent ==
    \A c \in Calls : kind[c] \in UseKinds =>
        /\ pc[c] = "observed" => result[c] = outcome[c]
        /\ pc[c] \in {"settled", "observed"} => pst[c]["use"] = outcome[c]
        /\ pst[c]["wrap"].st \in {"fulfilled", "rejected"} => pst[c]["wrap"] = outcome[c]

\* two submits to one pool have been observed, one with its task's error and
\* one with its task's value
C10_Witness ==
    /\ api = "TaskPool"
    /\ \E c, d \in Calls :
        /\ pc[c] = "observed" /\ result[c] = Thrown(c)
        /\ pc[d] = "observed" /\ result[d] = Returned(d)

\* C11 as written: when a use call settles, used has returned to the value it
\* had immediately before the use call.
UseSettles == last.op \in {"finally", "throw"}

C11_UsedReturnsToPreCallValue == UseSettles => used = usedBefore[last.call]

\* C11: use releases the permit even when the wrapped operation fails, and when
\* the use call settles used equals the value it had immediately before the
\* call plus the permits the other callers took less the permits they freed in
\* between: the call's own permit is gone, and used has returned to its
\* pre-call value whenever the other callers took and freed equally many.
C11_UseLeavesNoPermitBehind ==
    UseSettles =>
        LET c == last.call
        IN  /\ last.ret = TRUE /\ released[c] /\ c \notin Outstanding
            /\ used = usedBefore[c] + othersNet[c]
            /\ othersNet[c] = 0 => used = usedBefore[c]

\* a use call made on a full semaphore fails after its operation suspended, and
\* settles on a semaphore whose other permit was freed in the meantime
C11_Witness ==
    /\ UseSettles
    /\ outcome[last.call].st = "rejected"
    /\ Begun(last.call) /\ last.op = "finally"
    /\ WasQueued(last.call)
    /\ othersNet[last.call] # 0
    /\ used # usedBefore[last.call]

\* C12: a Mutex guarantees mutual exclusion: at no time are two bodies running
\* that it guards, a body being the operation of a use call or the code between
\* a resumed acquire and the first call of its release function.
Critical ==
    {c \in Calls : \/ pc[c] = "body"
                   \/ kind[c] \in {"acquire", "Mutex.acquire"} /\ pc[c] = "holding"
                                                               /\ ~released[c]}

C12_MutexExcludes ==
    api = "Mutex" =>
        /\ Cardinality(Critical) <= 1
        /\ last.op \in {"body", "throw"} => Critical \subseteq {last.call}

\* a caller holds the mutex through acquire while a use call and an acquire
\* call wait in the queue
C12_Witness ==
    /\ api = "Mutex"
    /\ \E c \in Critical : kind[c] = "Mutex.acquire"
    /\ Len(queue) = 2
    /\ \E d \in Calls : Queued(d) /\ kind[d] = "Mutex.use"

\* C13: Mutex.use (and use on a capacity-1 semaphore) serializes operations in
\* call order: of two use calls, the body of the later call begins only after
\* the body of the earlier call has run to completion and released the permit.

C13_UseSerializesInCallOrder ==
    capacity = 1 =>
        \A c, d \in Calls :
            (c < d /\ kind[c] \in UseKinds /\ kind[d] \in UseKinds /\ Begun(d)) =>
                Completed(c)

\* three use calls on a mutex: the first two ran one after the other and the
\* third, which had to queue behind the second, is in its suspended body
C13_Witness ==
    /\ api = "Mutex"
    /\ \A c \in Calls : kind[c] = "Mutex.use"
    /\ enqOrder = <<2, 3>>
    /\ outcome[1].st = "fulfilled" /\ Completed(2)
    /\ pc[3] = "body"

\* C18: quiescence: once every use / submit call started has settled and every
\* manually acquired token has been released, used is 0, permits equals
\* capacity and the wait queue is empty.
Quiescent ==
    /\ \A c \in Calls : kind[c] \in UseKinds => Completed(c)
    /\ \A c \in Calls : (kind[c] \notin UseKinds /\ issued[c]) => released[c]

C18_Quiescence == Quiescent => used = 0 /\ permits = capacity /\ queue = <<>>

\* every call was made; a use failed, a use had to queue, a token was released
C18_Witness ==
    /\ Quiescent
    /\ nextCall = MaxCalls + 1
    /\ enqOrder # <<>>
    /\ \E c \in Calls : outcome[c].st = "rejected"
    /\ \E c \in Calls : kind[c] \notin UseKinds /\ released[c]

\* C19: an acquire made while used = capacity stays pending until a token's
\* release hands a permit to it: a queued waiter is resolved by nothing but a
\* release hand-off and is not resolved while all permits remain held.

C19_QueuedWaitsForHandOff ==
    /\ \A c \in Calls : Queued(c) =>
            /\ ~issued[c]
            /\ pst[c]["fut"] = Pending
            /\ pc[c] \in {"waiting", "acquiring"}
    /\ \A c \in Calls : (WasQueued(c) /\ ~Queued(c)) => Granted(c) /\ issued[c]
    /\ \A c \in Calls : (WasQueued(c) /\ pst[c]["fut"].st # "pending") => Granted(c)
    /\ Len(grantOrder) <= TokensFreed
    /\ (Len(grantOrder) > 0 /\ last.op \notin ReleaseOps) => TokensFreed > 0

\* an acquire queued on a full semaphore has resumed with its token after the
\* holder released, while a later waiter is still pending
C19_Witness ==
    /\ \E c \in Calls : WasQueued(c) /\ kind[c] \in {"acquire", "Mutex.acquire"}
                                     /\ pc[c] = "holding"
    /\ \E d \in Calls : Queued(d)

\* C20: for every capacity >= 1, immediately after construction of a Semaphore
\* (or of a TaskPool with that concurrency) used = 0 (tasks = 0), permits =
\* capacity and the wait queue is empty.
Fresh == nextCall = 1

C20_FreshSemaphoreIsIdle ==
    Fresh => used = 0 /\ permits = capacity /\ queue = <<>> /\ capacity >= 1

\* a TaskPool of the largest concurrency has just been constructed
C20_Witness == Fresh /\ api = "TaskPool" /\ capacity = MaxCapacity /\ permits = capacity

\* C14: when every task succeeds, submitAll resolves with a list whose i-th
\* element is the result of the i-th input task, whatever the order in which
\* the tasks complete and whatever the concurrency, and each task is executed
\* exactly once.
C14_SubmitAllKeepsInputOrder ==
    /\ psub.st = "fulfilled" =>
          /\ Len(psub.values) = Cardinality(Members)
          /\ \A i \in 1..Len(psub.values) :
                /\ Cardinality(Runners(i)) = 1
                /\ \A c \in Runners(i) :
                      /\ Begun(c) /\ freed[c] = 1
                      /\ outcome[c].st = "fulfilled"
                      /\ psub.values[i] = outcome[c].val
    /\ (pall.st # "none" /\ MembersDone /\ jobs = <<>>
            /\ \A c \in Members : outcome[c].st = "fulfilled") =>
          psub.st = "fulfilled" /\ seen = psub

\* three tasks on a pool of concurrency 2: the third had to queue, the second
\* completed before the first, and the caller received the list
C14_Witness ==
    /\ seen.st = "fulfilled" /\ Len(seen.values) = 3
    /\ capacity = 2 /\ enqOrder = <<3>>
    /\ arrived = <<2, 1, 3>>
    /\ \A i \in 1..3 : seen.values[i] = ValueOf(i)

\* C15: at every observable instant TaskPool.tasks equals the number of
\* submitted tasks that are past permit acquisition (their submit call has been
\* granted a permit) and have not yet released their permit.
HoldingPermit == {c \in Calls : kind[c] = "submit" /\ issued[c] /\ ~released[c]}

C15_TasksCountsPermitHolders == tasks = Cardinality(HoldingPermit)

\* a task that had to queue holds the permit a completed task handed to it,
\* next to a task that is still in its body
C15_Witness ==
    /\ tasks = 2
    /\ \E c \in HoldingPermit : WasQueued(c) /\ pc[c] = "acquiring"
    /\ \E c \in HoldingPermit : pc[c] = "body"
    /\ \E c \in Members : Completed(c)

\* C16 as written: if a task of submitAll fails, submitAll fails with the error
\* of the task whose failure occurred first in time.
C16_FailsWithEarliestFailure ==
    psub.st = "rejected" => psub.reason = ErrorOf(firstFailed)

\* C16: if a task of submitAll fails, submitAll fails, with the error of a
\* failed task: the one whose rejected submit promise Promise.all reacted to
\* first. That is the task whose failure occurred first in time when the tasks
\* fail by rejecting the promise they return; a task that throws before it
\* returns a promise is one job ahead and can overtake an earlier failure.
ThrewBeforeReturning(c) == outcome[c].st = "rejected" /\ pst[c]["body"] = NoPromise
FailedArrivals == {i \in 1..Len(arrived) : result[arrived[i]].st = "rejected"}
FirstFailedArrival == arrived[CHOOSE i \in FailedArrivals : \A j \in FailedArrivals : i <= j]

C16_FailsWithFirstRejection ==
    /\ psub.st = "fulfilled" => \A c \in Members : outcome[c].st = "fulfilled"
    /\ (pall.st # "none" /\ MembersDone /\ jobs = <<>> /\ firstFailed # 0) =>
          psub.st = "rejected" /\ seen = psub
    /\ psub.st = "rejected" =>
          /\ firstFailed # 0 /\ FailedArrivals # {}
          /\ psub.reason = ErrorOf(FirstFailedArrival)
          /\ outcome[FirstFailedArrival] = Thrown(FirstFailedArrival)
          /\ (\A c \in Members : ~ThrewBeforeReturning(c)) =>
                psub.reason = ErrorOf(firstFailed)

\* the second task of the list was the first to fail, the first task failed
\* after it, and the caller received the error of the second task
C16_Witness ==
    /\ seen.st = "rejected"
    /\ firstFailed = 2 /\ seen.reason = ErrorOf(2)
    /\ outcome[1].st = "rejected" /\ pst[1]["body"].st = "rejected"
    /\ \A c \in Members : ~ThrewBeforeReturning(c)

\* C17: a failure in submitAll cancels nothing: after submitAll has failed,
\* every other task of the call that is running still runs to completion and
\* every task still queued is still granted a permit and executed, each
\* releasing its permit, so that tasks eventually returns to 0.
AllTasksRan ==
    \A c \in Members : Begun(c) /\ outcome[c].st # "none" /\ freed[c] = 1 /\ Completed(c)

C17_FailureCancelsNothing ==
    (psub.st = "rejected") ~> (AllTasksRan /\ tasks = 0 /\ queue = <<>>)

\* submitAll has failed while one of its tasks is in its body and another is
\* still in the wait queue
C17_Witness ==
    /\ psub.st = "rejected"
    /\ \E c \in Members : pc[c] = "body"
    /\ \E c \in Members : Queued(c) /\ ~Begun(c)


\* ------------------------------------------------------- constructor calls
\* new Semaphore(x) and new TaskPool(x) for any number x, on a program that
\* has no semaphore yet
InitNew ==
    /\ observing = FALSE
    /\ api = "none" /\ capacity = 0 /\ count = 0 /\ queue = <<>>
    /\ NoCalls
    /\ newArg \in Numbers
    /\ newOwner \in {"Semaphore", "TaskPool"}
    /\ newError = "none"
    /\ NoProgram

\* the constructor runs: TaskPool's constructor is new Semaphore(concurrency)
New ==
    /\ api = "none" /\ newError = "none"
    /\ LET s == Semaphore(newArg) IN
          IF s.ok
          THEN /\ api' = newOwner
               /\ capacity' = s.capacity
               /\ count' = s.count
               /\ queue' = s.queue
               /\ UNCHANGED newError
          ELSE /\ newError' = s.error
               /\ UNCHANGED <<api, capacity, count, queue>>
    /\ UNCHANGED <<asyncVars, newArg, newOwner, kind, pc, issued, released, pst, reg, jobs, outcome,
                   result, freed, last, enqOrder, grantOrder, recvOrder, nextCall,
                   observing, usedBefore, othersNet, taskOf, pall, psub, seen, arrived,
                   firstFailed>>

NextNew == New
SpecNew == InitNew /\ [][NextNew]_vars

\* the constructor has returned or thrown
Constructing == api = "none" /\ newError = "none"
\* x is one of the numbers 1, 2, 3, ...
PositiveInteger(x) == \E k \in 1..MaxNumerator : x[2] # 0 /\ x[1] = k * x[2]

\* C21: a constructor call with a capacity that is 0, negative or no integer
\* throws the invalid-capacity error and leaves no semaphore behind; with a
\* positive integer it yields a semaphore of that capacity, idle
C21_ConstructorChecksCapacity ==
    ~Constructing =>
        IF PositiveInteger(newArg)
        THEN /\ newError = "none"
             /\ api = newOwner
             /\ capacity * newArg[2] = newArg[1]
             /\ count = 0 /\ queue = <<>>
        ELSE /\ newError = InvalidCapacity
             /\ api = "none" /\ capacity = 0

\* a TaskPool constructed with a positive fraction was refused
C21_Witness ==
    /\ newOwner = "TaskPool" /\ newError = InvalidCapacity
    /\ newArg[1] > 0 /\ newArg[2] > 0 /\ ~IsInteger(newArg)



\* ------------------------------------------- submitAll with an empty list
\* a pool that runs tasks given to submit, each of them pending until it
\* returns or throws, on which submitAll([]) is called
NextPoolEmpty ==
    \/ \E c \in Calls : CallSubmit(c)
    \/ CallSubmitAll(0)
    \/ RunThenable
    \/ AdoptFut
    \/ AdoptUse
    \/ BodySuspends
    \/ \E c \in Calls : FinishBody(c)
    \/ UseResumes
    \/ Observe
    \/ AllThenable
    \/ AllAdopt
    \/ SubmitAllObserved

SpecPoolEmpty == InitPool /\ [][NextPoolEmpty]_vars

\* submitAll was called with an empty list
CalledWithEmptyList == pall.st # "none" /\ Members = {}

\* C22: submitAll([]) takes no permit and changes neither tasks nor the wait
\* queue, whatever the pool is doing, and its promise is fulfilled with []
C22_EmptySubmitAllIsInert ==
    /\ (last.op = "submitAll" /\ Members = {}) =>
          /\ count = last.count0
          /\ tasks = last.count0
          /\ queue = last.queue0
          /\ pall.st = "fulfilled" /\ pall.values = <<>>
    /\ CalledWithEmptyList =>
          /\ psub.st # "rejected"
          /\ seen.st # "rejected"
          /\ seen.st = "fulfilled" => seen.values = <<>>
          /\ (jobs = <<>>) => seen.st = "fulfilled"

\* submitAll([]) was called on a full pool with a task waiting, and its caller
\* has received []
C22_Witness ==
    /\ CalledWithEmptyList
    /\ seen.st = "fulfilled" /\ seen.values = <<>>
    /\ count = capacity /\ queue # <<>>



\* ------------------------------------------------- frames of acquire, release
\* the last step was a call of acquire(), made directly or by use()
AcquireCalled == last.op \in {"acquire", "use"}

\* C29: acquire with a free permit takes it at once (used + 1, token issued, no
\* queue entry); acquire on a full semaphore appends the caller to the queue
\* and changes neither used nor the entries already queued
C29_AcquireFrame ==
    AcquireCalled =>
        IF last.count0 < capacity
        THEN /\ used = last.count0 + 1
             /\ queue = last.queue0
             /\ issued[last.call] /\ ~released[last.call]
             /\ pst[last.call]["acq"] = [st |-> "fulfilled", val |-> TokenOf(last.call)]
        ELSE /\ used = last.count0
             /\ queue = Append(last.queue0, last.call)
             /\ ~issued[last.call]
             /\ pst[last.call]["acq"] = Pending

\* acquire was called on a full semaphore behind an earlier waiter
C29_Witness ==
    /\ AcquireCalled /\ last.count0 = capacity
    /\ last.queue0 # <<>>
    /\ Len(queue) = Len(last.queue0) + 1

\* the last step was the first release of a token, with a waiter queued
HandOff == last.op \in ReleaseOps /\ ~last.released0 /\ last.queue0 # <<>>

\* C30: the first release of a token with a non-empty queue removes the head
\* entry only, hands it the permit in the same step with a token of its own
\* that is not released, and leaves used at capacity
C30_ReleaseHandOff ==
    HandOff =>
        LET w == Head(last.queue0) IN
        /\ queue = Tail(last.queue0)
        /\ used = last.count0 /\ used = capacity
        /\ released[last.call]
        /\ w # last.call
        /\ issued[w] /\ ~released[w] /\ freed[w] = 0
        /\ pst[w]["fut"] = [st |-> "fulfilled", val |-> TokenOf(w)]
        /\ grantOrder # <<>> /\ grantOrder[Len(grantOrder)] = w

\* a token was released with two waiters queued: the second one is now first
C30_Witness ==
    /\ HandOff /\ Len(last.queue0) = 2
    /\ queue = <<last.queue0[2]>>
    /\ issued[last.queue0[1]]



\* --------------------------------------------------------- backoff function
\* expBackoff(m) for a positive number m, asked for the waits of the attempts
\* 0, 1, 2, ... as withRetry's loop asks for them
InitBackoff ==
    /\ observing = FALSE
    /\ api = "none" /\ capacity = 0 /\ count = 0 /\ queue = <<>>
    /\ NoCalls
    /\ newArg = Num(0) /\ newOwner = "none" /\ newError = "none"
    /\ minWait \in (1..MaxMinWait) \X (1..MaxDenominator)
    /\ waits = <<>>
    /\ prog = "none" /\ tries = 0 /\ tlimit = 0
    /\ NotCalled

NextWait ==
    /\ Len(waits) <= MaxIndex
    /\ waits' = Append(waits, expBackoff(minWait, Len(waits)))
    /\ UNCHANGED <<api, capacity, count, queue, newVars, progVars, timedVars, nestVars,
                   minWait, kind, pc, issued,
                   released, pst, reg, jobs, outcome, result, freed, last, enqOrder,
                   grantOrder, recvOrder, nextCall, observing, usedBefore, othersNet,
                   taskOf, pall, psub, seen, arrived, firstFailed>>

NextBackoff == NextWait
SpecBackoff == InitBackoff /\ [][NextBackoff]_vars

\* C28: for a positive integer m the wait of attempt i is 2^i * m, which is at
\* least m and at least the wait of the attempt before
C28_BackoffDoubles ==
    IsInteger(minWait) =>
        \A k \in 1..Len(waits) :
            /\ NumEq(waits[k], Num(Pow2(k - 1) * IntegerOf(minWait)))
            /\ Leq(minWait, waits[k])
            /\ k > 1 => Leq(waits[k - 1], waits[k])

\* the waits 3, 6, 12, 24 of expBackoff(3)
C28_Witness ==
    /\ minWait = Num(3)
    /\ Len(waits) = 4
    /\ waits[1] = Num(3) /\ waits[4] = Num(24)



\* --------------------------------------------- calls of withRetry, withTimeout
\* a program that owns no semaphore
NoSemaphoreInUse ==
    /\ observing = FALSE
    /\ api = "none" /\ capacity = 0 /\ count = 0 /\ queue = <<>>
    /\ NoCalls
    /\ newArg = Num(0) /\ newOwner = "none" /\ newError = "none"

\* the promise the caller awaits, and the one withTimeout's then() is called on
OuterP == IF prog = "retry" THEN retP ELSE topP
InnerOf(a) ==
    CASE prog # "timeout" -> a.retP
      [] a.fnP = <<>> -> NoPromise
      [] OTHER -> a.fnP[1]

CommitAsync(a) ==
    /\ fnP' = a.fnP /\ rpc' = a.rpc /\ ri' = a.ri /\ lastError' = a.lastError
    /\ retP' = a.retP /\ sleepDue' = a.sleepDue /\ micro' = a.micro
    /\ starts' = a.starts /\ fails' = a.fails /\ waits' = a.waits
    /\ firstEvent' =
          CASE firstEvent # "none" -> firstEvent
            [] InnerOf(a).st = "fulfilled" -> "fulfil"
            [] InnerOf(a).st \in {"rejected", "threw"} -> "reject"
            [] OTHER -> "none"
    /\ UNCHANGED <<semVars, newVars, timedVars, nestVars, minWait, prog, tries, tlimit, now,
                   atTimeout>>

Popped1(a) == [a EXCEPT !.micro = Tail(@)]

\* const p = withRetry(fn, tries, wait)(); await p
CallRetry(b) ==
    /\ prog = "retry" /\ retP = NoPromise
    /\ CommitAsync(ThenRet(withRetryLoop([Async EXCEPT !.retP = Pending], b)))
    /\ retReg' = TRUE
    /\ UNCHANGED <<timeoutDue, topP, got, callsAtDelivery>>

\* const p = withTimeout(inner, t)(); await p, where inner is fn or
\* withRetry(fn, tries, wait): the executor sets the timer, calls inner and
\* calls then() on its promise; a throw of fn rejects the new promise
CallTimeout(b) ==
    /\ prog \in {"timeout", "timeoutRetry"} /\ topP = NoPromise
    /\ timeoutDue' = now + tlimit
    /\ IF prog = "timeout"
       THEN /\ CommitAsync([Async EXCEPT
                    !.fnP = <<Attempt(b, 1)>>, !.starts = <<now>>,
                    !.micro = CASE b = "throws" -> Append(@, "deliver")
                                [] b = "pending" -> @
                                [] OTHER -> Append(@, "onSettle")])
            /\ topP' = IF b = "throws" THEN [st |-> "rejected", val |-> AttemptError(1)]
                        ELSE Pending
            /\ UNCHANGED retReg
       ELSE /\ CommitAsync(ThenRet(withRetryLoop([Async EXCEPT !.retP = Pending], b)))
            /\ topP' = Pending
            /\ retReg' = TRUE
    /\ UNCHANGED <<got, callsAtDelivery>>

\* the operation behind the k-th call of fn completes: a macrotask
EnvSettles(k, ok) ==
    /\ micro = <<>>
    /\ k \in 1..Len(fnP) /\ fnP[k].st = "pending"
    /\ LET p == [st |-> IF ok THEN "fulfilled" ELSE "rejected",
                 val |-> IF ok THEN AttemptValue(k) ELSE AttemptError(k)]
           job == CASE prog = "timeout" -> <<"onSettle">>
                    [] rpc = "awaitFn" /\ k = Len(fnP) -> <<"resumeFn">>
                    [] OTHER -> <<>>
       IN  CommitAsync([Async EXCEPT !.fnP[k] = p, !.micro = job])
    /\ UNCHANGED <<timeoutDue, retReg, topP, got, callsAtDelivery>>

\* microtask: withRetry's function resumes from await fn(...)
ResumeFn ==
    /\ micro # <<>> /\ Head(micro) = "resumeFn"
    /\ CommitAsync(withRetryResume(Popped1(Async)))
    /\ UNCHANGED <<timeoutDue, retReg, topP, got, callsAtDelivery>>

\* macrotask: the timer of sleep fires and resolves sleep's promise
SleepFires ==
    /\ micro = <<>>
    /\ sleepDue # -1 /\ sleepDue <= now
    /\ CommitAsync([Async EXCEPT !.sleepDue = -1, !.micro = <<"resumeSleep">>])
    /\ UNCHANGED <<timeoutDue, retReg, topP, got, callsAtDelivery>>

\* microtask: withRetry's function resumes from await sleep(...): i++
ResumeSleep(b) ==
    /\ micro # <<>> /\ Head(micro) = "resumeSleep"
    /\ CommitAsync(withRetryLoop([Popped1(Async) EXCEPT !.ri = @ + 1], b))
    /\ UNCHANGED <<timeoutDue, retReg, topP, got, callsAtDelivery>>

\* microtask: onPass / onFail of withTimeout: clearTimeout, then pass or fail
OnSettle ==
    /\ micro # <<>> /\ Head(micro) = "onSettle"
    /\ timeoutDue' = -1
    /\ topP' = IF InnerOf(Async).st = "fulfilled"
               THEN onPass(topP, InnerOf(Async).val)
               ELSE onFail(topP, InnerOf(Async).val)
    /\ IF topP.st = "pending"
       THEN CommitAsync([Async EXCEPT !.micro = Append(Tail(@), "deliver")])
       ELSE CommitAsync(Popped1(Async))
    /\ UNCHANGED <<retReg, got, callsAtDelivery>>

\* macrotask: withTimeout's timer fires: fail(new TimeoutError())
TimeoutFires ==
    /\ micro = <<>>
    /\ timeoutDue # -1 /\ timeoutDue <= now
    /\ timeoutDue' = -1
    /\ topP' = onTimeout(topP)
    /\ micro' = IF topP.st = "pending" THEN <<"deliver">> ELSE micro
    /\ firstEvent' = IF firstEvent = "none" THEN "timer" ELSE firstEvent
    /\ atTimeout' = [fired |-> TRUE, fnP |-> fnP]
    /\ UNCHANGED <<semVars, newVars, timedVars, nestVars, minWait, waits, prog, tries, tlimit, now, sleepDue,
                   fnP, rpc, ri, lastError, retP, retReg, got, starts, fails,
                   callsAtDelivery>>

\* microtask: the caller resumes from its await
Deliver ==
    /\ micro # <<>> /\ Head(micro) = "deliver"
    /\ got' = OuterP
    /\ callsAtDelivery' = Len(fnP)
    /\ CommitAsync(Popped1(Async))
    /\ UNCHANGED <<timeoutDue, retReg, topP>>

\* time passes while no job is queued and no timer is due
Advance ==
    /\ micro = <<>>
    /\ OuterP # NoPromise
    /\ now < MaxTime
    /\ timeoutDue = -1 \/ timeoutDue > now
    /\ sleepDue = -1 \/ sleepDue > now
    /\ now' = now + 1
    /\ UNCHANGED <<semVars, newVars, timedVars, nestVars, minWait, waits, prog, tries, tlimit, timeoutDue,
                   sleepDue, fnP, rpc, ri, lastError, retP, retReg, topP, micro, got,
                   starts, fails, firstEvent, callsAtDelivery,
          atTimeout>>

InitRetry ==
    /\ NoSemaphoreInUse
    /\ minWait \in {Num(w) : w \in 1..MaxWait} /\ waits = <<>>
    /\ prog = "retry" /\ tries \in 0..MaxTries /\ tlimit = 0
    /\ NotCalled

NextRetry ==
    \/ \E b \in Behaviours : CallRetry(b)
    \/ \E k \in 1..MaxTries, ok \in BOOLEAN : EnvSettles(k, ok)
    \/ ResumeFn
    \/ SleepFires
    \/ \E b \in Behaviours : ResumeSleep(b)
    \/ Deliver
    \/ Advance

SpecRetry == InitRetry /\ [][NextRetry]_vars

InitTimeout ==
    /\ NoSemaphoreInUse
    /\ minWait \in {Num(w) : w \in 1..MaxWait} /\ waits = <<>>
    /\ prog \in {"timeout", "timeoutRetry"}
    /\ tries \in 0..MaxTries /\ (prog = "timeout" => tries = 0)
    /\ (prog = "timeout" => minWait = Num(1))
    /\ tlimit \in 0..MaxTimeout
    /\ NotCalled

NextTimeout ==
    \/ \E b \in Behaviours : CallTimeout(b)
    \/ \E k \in 1..MaxTries, ok \in BOOLEAN : EnvSettles(k, ok)
    \/ ResumeFn
    \/ SleepFires
    \/ \E b \in Behaviours : ResumeSleep(b)
    \/ OnSettle
    \/ TimeoutFires
    \/ Deliver
    \/ Advance

SpecTimeout == InitTimeout /\ [][NextTimeout]_vars



\* the attempts made so far, and those that failed
Attempts == 1..Len(fnP)
Failed(k) == fnP[k].st \in {"rejected", "threw"}
\* every job that is due has run
Settling == micro # <<>>

\* C23: withRetry makes its attempts in sequence, attempt k + 1 not before
\* attempt k has failed and wait(k - 1) ms have gone by; a successful attempt
\* is the last one, and the call resolves with its value, fn having been
\* called as many times as the number of that attempt
C23_RetryStopsAtFirstSuccess ==
    /\ Len(fnP) <= tries
    /\ \A k \in Attempts \ {1} :
          /\ Failed(k - 1)
          /\ Len(fails) >= k - 1
          /\ starts[k] >= fails[k - 1] + WaitMs(k - 2)
    /\ \A k \in Attempts : fnP[k].st = "fulfilled" => k = Len(fnP)
    /\ retP.st = "fulfilled" =>
          /\ Len(fnP) >= 1
          /\ fnP[Len(fnP)].st = "fulfilled"
          /\ retP.val = AttemptValue(Len(fnP))
    /\ \A k \in Attempts : (fnP[k].st = "fulfilled" /\ ~Settling) =>
          /\ retP = [st |-> "fulfilled", val |-> AttemptValue(k)]
          /\ got = retP
    /\ got.st = "fulfilled" => got = retP /\ callsAtDelivery = Len(fnP)

\* the second of two tries succeeded, one wait after the first had failed, and
\* the caller has its value
C23_Witness ==
    /\ tries = 2 /\ Len(fnP) = 2
    /\ got = [st |-> "fulfilled", val |-> AttemptValue(2)]
    /\ starts[2] = fails[1] + WaitMs(0) /\ WaitMs(0) > 0
    /\ now > starts[2]

\* C24: withRetry's call fails only when every one of its tries attempts has
\* failed: fn was called tries times, and the error is a RetryError holding
\* the error of the last attempt
C24_RetryFailsAfterAllTries ==
    /\ retP.st = "rejected" =>
          /\ Len(fnP) = tries
          /\ \A k \in Attempts : Failed(k)
          /\ retP.val = RetryError(IF tries = 0 THEN NoValue ELSE fnP[tries].val)
          /\ retP.val = <<"RetryError", tries>>
    /\ got.st = "rejected" => got = retP /\ callsAtDelivery = tries
    /\ (/\ retP # NoPromise /\ Len(fnP) = tries /\ Len(fails) = tries
        /\ \A k \in Attempts : Failed(k)
        /\ sleepDue = -1 /\ ~Settling) =>
          got = [st |-> "rejected", val |-> <<"RetryError", tries>>]

\* both of two tries failed and the caller has the RetryError of the second
C24_Witness ==
    /\ tries = 2
    /\ got = [st |-> "rejected", val |-> RetryError(AttemptError(2))]
    /\ fnP[1].st = "threw" /\ fnP[2].st = "rejected"



\* the promise withTimeout called then() on
Inner == InnerOf(Async)
\* the caller's await has resumed at most once
DeliveredOnce ==
    Cardinality({i \in 1..Len(micro) : micro[i] = "deliver"})
        + (IF got = NoPromise THEN 0 ELSE 1) <= 1

\* C25: withTimeout's call settles once, by the first of three events: the
\* inner promise is fulfilled (its value), it is rejected (its error), or the
\* timer fires (TimeoutError); what happens later changes nothing
C25_TimeoutFirstEventWins ==
    /\ firstEvent = "fulfil" =>
          /\ Inner.st = "fulfilled"
          /\ ~Settling => topP = [st |-> "fulfilled", val |-> Inner.val]
    /\ firstEvent = "reject" =>
          /\ Inner.st \in {"rejected", "threw"}
          /\ ~Settling => topP = [st |-> "rejected", val |-> Inner.val]
    /\ firstEvent = "timer" => topP = [st |-> "rejected", val |-> TimeoutError]
    /\ topP.st = "fulfilled" => firstEvent = "fulfil" /\ topP.val = Inner.val
    /\ topP.st = "rejected" =>
          IF topP.val = TimeoutError THEN firstEvent = "timer"
          ELSE firstEvent = "reject" /\ topP.val = Inner.val
    /\ got # NoPromise => got = topP /\ Settled(got)
    /\ DeliveredOnce
    /\ ~Settling /\ Settled(topP) => got = topP

\* the caller got TimeoutError, and fn's promise was fulfilled afterwards
C25_Witness ==
    /\ prog = "timeout"
    /\ got = [st |-> "rejected", val |-> TimeoutError]
    /\ fnP[1].st = "fulfilled"
    /\ ~Settling

\* the timer fired while the first attempt was pending
TimedOutInFirstAttempt ==
    atTimeout.fired /\ Len(atTimeout.fnP) = 1 /\ atTimeout.fnP[1].st = "pending"
\* attempt k had succeeded when the timer fired, if it has fired
SucceededInTime(k) ==
    /\ k \in Attempts /\ fnP[k].st = "fulfilled"
    /\ atTimeout.fired => k <= Len(atTimeout.fnP) /\ atTimeout.fnP[k].st = "fulfilled"

\* C26: withTimeout(withRetry(fn, n, wait), t): a timer that fires during the
\* first attempt fails the call with TimeoutError, delivered when fn has been
\* called once; an attempt that succeeds before the timer fires gives the call
\* its value
C26_TimeoutBeatsRetry ==
    prog = "timeoutRetry" =>
        /\ TimedOutInFirstAttempt =>
              /\ topP = [st |-> "rejected", val |-> TimeoutError]
              /\ got # NoPromise => got = topP /\ callsAtDelivery = 1
              /\ ~Settling => got = topP
        /\ \A k \in 1..MaxTries : (SucceededInTime(k) /\ ~Settling) =>
              /\ topP = [st |-> "fulfilled", val |-> AttemptValue(k)]
              /\ got = topP

\* the caller got TimeoutError after one call of fn, which failed later, and
\* withRetry went on to its second attempt
C26_Witness ==
    /\ prog = "timeoutRetry" /\ TimedOutInFirstAttempt
    /\ got = [st |-> "rejected", val |-> TimeoutError] /\ callsAtDelivery = 1
    /\ Len(fnP) = 2



\* --------------------------------------------------- use around withTimeout
\* sem.use(withTimeout(op, t)): the function use() runs is withTimeout's, whose
\* promise is the "body" promise of the call
OnSettleJob(c) == [type |-> "onSettle", call |-> c, p |-> "op"]

\* the body promise of call c settles: use()'s await is notified
SettleBody(h, c, o) ==
    IF h.pst[c]["body"].st = "pending" /\ o.st # "pending"
    THEN Settle(h, c, "body", o.st, o.val)
    ELSE h
BodyOutcome(h, c) ==
    IF h.pst[c]["body"].st = "pending" THEN NoPromise ELSE h.pst[c]["body"]

\* use() resumes with the token and calls withTimeout's function: the executor
\* sets the timer and calls op, which returns a promise or throws, and use()
\* awaits the new promise
TimedBody(b) ==
    /\ JobHead("reaction", "acq")
    /\ LET c == Head(jobs).call
           o == CASE b = "pending" -> Pending
                  [] b = "fulfilled" -> Returned(c)
                  [] OTHER -> Thrown(c)
           h1 == [Popped EXCEPT
                    !.pst[c]["body"] = IF b = "throws" THEN Thrown(c) ELSE Pending,
                    !.jobs = IF b \in {"fulfilled", "rejected"}
                             THEN Append(@, OnSettleJob(c)) ELSE @]
       IN  /\ kind[c] \in UseKinds
           /\ opP' = [opP EXCEPT ![c] = IF b = "throws" THEN NoPromise ELSE o]
           /\ timer' = [timer EXCEPT ![c] = "armed"]
           /\ Commit(Then(h1, c, "body"))
           /\ outcome' = [outcome EXCEPT ![c] = BodyOutcome(h1, c)]
           /\ pc' = [pc EXCEPT ![c] = IF b = "throws" THEN "finishing" ELSE "body"]
           /\ last' = Event("body", c, "none")
           /\ Received(c)
    /\ UNCHANGED <<api, capacity, newVars, nestVars, minWait, waits, progVars, arrived, taskOf, pall,
                   psub, seen, kind, result, nextCall, firstFailed>>

\* macrotask: the operation of call c completes
OpSettles(c, ok) ==
    /\ jobs = <<>>
    /\ opP[c].st = "pending"
    /\ opP' = [opP EXCEPT ![c] = IF ok THEN Returned(c) ELSE Thrown(c)]
    /\ Commit([Heap EXCEPT !.jobs = Append(@, OnSettleJob(c))])
    /\ last' = Internal
    /\ UNCHANGED <<api, capacity, newVars, nestVars, minWait, waits, progVars, timer, arrived, taskOf,
                   pall, psub, seen, kind, pc, outcome, result, recvOrder, nextCall,
                   firstFailed>>

\* microtask: onPass / onFail of call c's withTimeout
TimedOnSettle ==
    /\ jobs # <<>> /\ Head(jobs).type = "onSettle"
    /\ LET c == Head(jobs).call
           o == IF opP[c].st = "fulfilled"
                THEN onPass(pst[c]["body"], opP[c].val)
                ELSE onFail(pst[c]["body"], opP[c].val)
           h1 == SettleBody(Popped, c, o)
       IN  /\ timer' = [timer EXCEPT ![c] = IF @ = "armed" THEN "cleared" ELSE @]
           /\ Commit(h1)
           /\ outcome' = [outcome EXCEPT ![c] = BodyOutcome(h1, c)]
           /\ pc' = [pc EXCEPT ![c] = IF @ = "body" THEN "finishing" ELSE @]
    /\ last' = Internal
    /\ UNCHANGED <<api, capacity, newVars, nestVars, minWait, waits, progVars, opP, arrived, taskOf,
                   pall, psub, seen, kind, result, recvOrder, nextCall, firstFailed>>

\* macrotask: the timer of call c's withTimeout fires
UseTimerFires(c) ==
    /\ jobs = <<>>
    /\ timer[c] = "armed"
    /\ timer' = [timer EXCEPT ![c] = "fired"]
    /\ LET h1 == SettleBody(Heap, c, onTimeout(pst[c]["body"]))
       IN  /\ Commit(h1)
           /\ outcome' = [outcome EXCEPT ![c] = BodyOutcome(h1, c)]
    /\ pc' = [pc EXCEPT ![c] = IF @ = "body" THEN "finishing" ELSE @]
    /\ last' = Internal
    /\ UNCHANGED <<api, capacity, newVars, nestVars, minWait, waits, progVars, opP, arrived, taskOf,
                   pall, psub, seen, kind, result, recvOrder, nextCall, firstFailed>>

InitTimedUse == Constructed(FALSE) /\ api = "Semaphore"

NextTimedUse ==
    \/ \E c \in Calls : CallAcquire(c)
    \/ \E c \in Calls : CallUse(c)
    \/ \E c \in Calls : CallRelease(c)
    \/ RunThenable
    \/ AdoptFut
    \/ ReceiveToken
    \/ \E b \in Behaviours : TimedBody(b)
    \/ \E c \in Calls, ok \in BOOLEAN : OpSettles(c, ok)
    \/ TimedOnSettle
    \/ \E c \in Calls : UseTimerFires(c)
    \/ UseResumes
    \/ Observe

SpecTimedUse == InitTimedUse /\ [][NextTimedUse]_vars

\* the timer of call c fired before its operation had completed
TimedOut(c) == timer[c] = "fired" /\ outcome[c] = [st |-> "rejected", val |-> TimeoutError]

\* C27: when the timer of an operation run by use fires before the operation
\* completes, the token of that use call is released, once, before use's
\* promise is rejected with the TimeoutError and before the caller receives it
C27_TimeoutReleasesPermit ==
    \A c \in Calls :
        /\ (TimedOut(c) /\ pst[c]["use"].st # "pending") =>
              /\ pst[c]["use"] = [st |-> "rejected", val |-> TimeoutError]
              /\ released[c] /\ freed[c] = 1
              /\ c \notin Outstanding
        /\ result[c] = [st |-> "rejected", val |-> TimeoutError] =>
              /\ TimedOut(c)
              /\ released[c] /\ freed[c] = 1
        /\ (TimedOut(c) /\ jobs = <<>>) => result[c].val = TimeoutError

\* the caller of use has the TimeoutError while the operation is still running,
\* and the permit has gone to a waiter
C27_Witness ==
    \E c \in Calls :
        /\ result[c] = [st |-> "rejected", val |-> TimeoutError]
        /\ opP[c].st = "pending"
        /\ \E w \in Calls : WasQueued(w) /\ Granted(w) /\ w > c
        /\ used = capacity

\* ------------------------------------------------- the queue and the guard
NoDuplicates(q) == \A i, j \in 1..Len(q) : q[i] = q[j] => i = j

\* C31: the entries ever enqueued are, in order, those granted followed by
\* those still queued: none is skipped or dropped, none is granted twice, a
\* call gets a token of its own at most once, and one release serves at most
\* the head entry
C31_NoEntrySkippedOrDuplicated ==
    /\ enqOrder = grantOrder \o queue
    /\ NoDuplicates(enqOrder)
    /\ \A c \in Calls : WasQueued(c) => (issued[c] <=> Granted(c))
    /\ \A c \in Calls : freed[c] <= 1
    /\ Len(grantOrder) <= TokensFreed
    /\ (last.op \in ReleaseOps /\ last.ret = TRUE) =>
          \/ queue = last.queue0
          \/ last.queue0 # <<>> /\ queue = Tail(last.queue0)

\* two callers were queued; a release has granted the first, the second waits
C31_Witness ==
    /\ Len(enqOrder) = 2 /\ Len(grantOrder) = 1 /\ Len(queue) = 1
    /\ last.op \in ReleaseOps /\ last.ret = TRUE
    /\ issued[enqOrder[1]] /\ ~issued[enqOrder[2]]

\* C33: whenever a call is waiting in the queue, every permit is held
C33_WaitersOnlyWhenFull ==
    Len(queue) > 0 => used = capacity /\ permits = 0

\* a waiter is still queued after a release: the permit went to the one
\* ahead of it
C33_Witness ==
    /\ Len(queue) > 0 /\ used = capacity
    /\ last.op \in ReleaseOps /\ last.ret = TRUE /\ Len(last.queue0) = 2

\* C34: a token that is issued and not yet released finds used > 0, so the
\* first call of its release function passes the guard and returns true
C34_FirstReleaseSucceeds ==
    /\ Outstanding # {} => used > 0
    /\ \A c \in Outstanding : releaseToken(Heap, c).ret = TRUE
    /\ (last.op \in ReleaseOps /\ ~last.released0) => last.ret = TRUE /\ last.count0 > 0

\* the only outstanding token was released for the first time: used fell to 0
C34_Witness ==
    /\ last.op \in ReleaseOps /\ ~last.released0 /\ last.ret = TRUE
    /\ last.count0 = 1 /\ used = 0
    /\ \E c \in Calls : released[c] /\ c # last.call

\* ------------------------------------------------ the wait after a failure
\* C39: withRetry calls wait once after each failed attempt, the last one
\* included, with the indices 0, 1, ... in order; when all tries attempts have
\* failed wait has been called tries times, and the RetryError is not raised
\* before the wait that follows the last attempt is over
C39_RetryWaitsAfterLastFailure ==
    /\ Len(waits) = Len(fails)
    /\ Len(waits) <= tries
    /\ \A k \in 1..Len(waits) : waits[k] = expBackoff(minWait, k - 1)
    /\ \A k \in Attempts : (Failed(k) /\ ~Settling) => Len(waits) >= k
    /\ (retP.st = "rejected" /\ tries >= 1) =>
          /\ Len(waits) = tries
          /\ now >= fails[tries] + WaitMs(tries - 1)
    /\ (got.st = "rejected" /\ tries >= 1) =>
          now >= fails[tries] + WaitMs(tries - 1)

\* both of two tries failed; the caller has the RetryError, not before the
\* second wait was over
C39_Witness ==
    /\ tries = 2 /\ Len(waits) = 2
    /\ got.st = "rejected"
    /\ WaitMs(1) > 0 /\ now = fails[2] + WaitMs(1)

\* -------------------------------------------------- no cancellation on timeout
\* the caller of withTimeout has received the TimeoutError
TimeoutDelivered == got = [st |-> "rejected", val |-> TimeoutError]
InMicro(j) == \E i \in 1..Len(micro) : micro[i] = j
\* withRetry's function is suspended on something that will resume it
RetryAlive ==
    \/ rpc = "awaitFn" /\ (fnP[Len(fnP)].st = "pending" \/ InMicro("resumeFn"))
    \/ rpc = "awaitSleep" /\ (sleepDue # -1 \/ InMicro("resumeSleep"))

\* C37: after the TimeoutError of withTimeout(withRetry(fn, n, wait), t) has
\* been delivered, withRetry's loop goes on as without a timeout: it is waiting
\* for an attempt or for a sleep timer until an attempt has succeeded or n
\* attempts have failed; its result changes nothing for the caller
C37_TimeoutDoesNotCancelRetry ==
    (prog = "timeoutRetry" /\ TimeoutDelivered) =>
        /\ topP = got
        /\ rpc # "done" => RetryAlive /\ retP = Pending
        /\ rpc = "done" =>
              \/ /\ retP.st = "fulfilled"
                 /\ retP.val = AttemptValue(Len(fnP))
                 /\ fnP[Len(fnP)].st = "fulfilled"
              \/ /\ retP = [st |-> "rejected", val |-> <<"RetryError", tries>>]
                 /\ Len(fnP) = tries
                 /\ \A k \in Attempts : Failed(k)
        /\ Len(fnP) <= tries

\* the TimeoutError was delivered after one call of fn; withRetry then made
\* its second attempt, which succeeded, and the caller still has TimeoutError
C37_Witness ==
    /\ prog = "timeoutRetry" /\ TimeoutDelivered /\ callsAtDelivery = 1
    /\ Len(fnP) = 2
    /\ retP = [st |-> "fulfilled", val |-> AttemptValue(2)]
    /\ ~Settling

\* -------------------------------------- operations outliving their permits
\* the operations started by use calls that have not completed
OpsRunning == {c \in Calls : opP[c].st = "pending"}
\* use has run its finally block for call c
UseEnded(c) == pc[c] \in {"settled", "observed"}

\* C38: a timeout makes use release the permit while the operation goes on:
\* a running operation holds its permit unless its timer has fired and use has
\* ended, in which case its permit is released; used stays within capacity
\* while the running operations may outnumber it
C38_TimedOutOpsRunWithoutPermit ==
    /\ used <= capacity
    /\ \A c \in OpsRunning :
          IF UseEnded(c) THEN TimedOut(c) /\ released[c] /\ c \notin Outstanding
          ELSE c \in Outstanding
    /\ Cardinality(OpsRunning \cap Outstanding) <= capacity

\* more operations are running than the semaphore has permits
C38_Witness ==
    /\ Cardinality(OpsRunning) > capacity
    /\ used <= capacity
    /\ \E c \in OpsRunning : TimedOut(c) /\ released[c]

\* ------------------------------------------------------------------ liveness
\* a Semaphore whose callers use acquire and use, with operations that stay
\* pending until they return or throw, and tokens that are released once
InitFair == Init /\ api = "Semaphore"

\* the holder of a token calls its release function for the first time
FirstRelease == \E c \in Calls : CallRelease(c) /\ ~released[c]

NextFair ==
    \/ \E c \in Calls : CallAcquire(c)
    \/ \E c \in Calls : CallUse(c)
    \/ FirstRelease
    \/ RunThenable
    \/ AdoptFut
    \/ ReceiveToken
    \/ BodySuspends
    \/ \E c \in Calls : FinishBody(c)
    \/ UseResumes
    \/ Observe

\* the microtask queue is drained, every operation run by use terminates and
\* every holder of a token releases it
ProgressFair ==
    \/ RunThenable
    \/ AdoptFut
    \/ ReceiveToken
    \/ BodySuspends
    \/ UseResumes
    \/ Observe
    \/ \E c \in Calls : FinishBody(c)
    \/ FirstRelease

SpecFair == InitFair /\ [][NextFair]_vars /\ WF_vars(ProgressFair)

\* call c has been made, and its caller has resumed with a permit
Called(c) == kind[c] # "idle"
HasPermit(c) == issued[c] /\ (pc[c] = "holding" \/ Begun(c))

\* C35: when tokens are released and operations terminate, every acquire and
\* every use call made is eventually given a permit: no waiter stays queued
C35_EveryWaiterIsServed ==
    \A c \in Calls : Called(c) ~> (HasPermit(c) /\ ~Queued(c))

\* a call that had to queue holds a permit
C35_Witness ==
    \E c \in Calls : WasQueued(c) /\ HasPermit(c) /\ ~Queued(c) /\ Len(enqOrder) = 2

\* ------------------------------------------------------------ nested calls
\* the entry points an operation may call on the object it runs under
InnerKinds == IF api = "Mutex" THEN {"Mutex.acquire", "Mutex.use"} ELSE {"acquire", "use"}

\* call d of kind k, up to the point where its caller awaits the result
InnerCall(h, d, k) ==
    CASE k = "acquire" -> Then(acquire(h, d), d, "acq")
      [] k = "use" -> Awaited(use(h, d), d, "use")
      [] k = "Mutex.acquire" -> Awaited(MutexAcquire(h, d), d, "macq")
      [] OTHER -> Awaited(MutexUse(h, d), d, "wrap")

Inners(c) == {d \in Calls : parent[d] = c}
\* the caller of call d has resumed from its await
Resumed(d) == pc[d] \in {"holding", "observed"}

\* use() resumes with the token and calls fn(), an async function that calls
\* acquire or use on the same object, awaits it and then goes on; use() awaits
\* the promise fn() returned
BodyCallsInner(k) ==
    /\ JobHead("reaction", "acq")
    /\ k \in InnerKinds
    /\ nextCall <= MaxCalls
    /\ LET c == Head(jobs).call
           d == nextCall
           h1 == [Popped EXCEPT !.pst[c]["body"] = Pending]
       IN  /\ kind[c] \in UseKinds
           /\ Commit(Then(InnerCall(h1, d, k), c, "body"))
           /\ kind' = [kind EXCEPT ![d] = k]
           /\ pc' = [pc EXCEPT ![c] = "body",
                               ![d] = IF k \in UseKinds THEN "acquiring" ELSE "waiting"]
           /\ parent' = [parent EXCEPT ![d] = c]
           /\ UNCHANGED <<mutex, mpc>>
           /\ nextCall' = d + 1
           /\ last' = Event(IF k \in UseKinds THEN "use" ELSE "acquire", d, "promise")
           /\ Received(c)
    /\ UNCHANGED <<api, capacity, newVars, minWait, waits, progVars, timedVars, arrived,
                   taskOf, pall, psub, seen, outcome, result, firstFailed>>

\* an operation goes on to its end once the calls it awaits have resumed it
FinishNestedBody == \E c \in Calls : FinishBody(c) /\ \A d \in Inners(c) : Resumed(d)

InitNested == Init /\ api \in {"Semaphore", "Mutex"}

NextNested ==
    \/ \E c \in Calls : CallAcquire(c)
    \/ \E c \in Calls : CallUse(c)
    \/ \E c \in Calls : CallMutexAcquire(c)
    \/ \E c \in Calls : CallMutexUse(c)
    \/ \E c \in Calls : CallRelease(c)
    \/ RunThenable
    \/ AdoptFut
    \/ AdoptAcq
    \/ AdoptUse
    \/ ReceiveToken
    \/ BodySuspends
    \/ \E k \in {"acquire", "use", "Mutex.acquire", "Mutex.use"} : BodyCallsInner(k)
    \/ FinishNestedBody
    \/ UseResumes
    \/ Observe

SpecNested == InitNested /\ [][NextNested]_vars

\* the use calls inside whose operation call d was made, nearest first
RECURSIVE Ancestors(_)
Ancestors(d) == IF parent[d] = 0 THEN {} ELSE {parent[d]} \cup Ancestors(parent[d])

Nested == {d \in Calls : parent[d] # 0}

\* C36 as stated: a request made by a use operation on the object it runs
\* under, and queued because no permit was free, is never granted, and the
\* outer use never completes, on a Mutex and on a Semaphore alike
C36_NestedNeverCompletes ==
    \A d \in Nested :
        WasQueued(d) => ~issued[d] /\ ~Completed(parent[d])

\* C36, amended: on a Mutex a request made by a use operation is always queued
\* and never granted, and the outer use stays in its operation holding the one
\* permit; on a Semaphore a queued nested request is granted only by the
\* release of a permit held outside the chain of uses that made it, and until
\* then every use of that chain stays in its operation holding its permit
C36_NotReentrant ==
    /\ \A d \in Nested :
           /\ api = "Mutex" =>
                  /\ WasQueued(d) /\ ~issued[d] /\ pc[d] \in {"waiting", "acquiring"}
                  /\ Outstanding = {parent[d]}
                  /\ used = 1
           /\ WasQueued(d) /\ ~issued[d] =>
                  \A c \in Ancestors(d) : pc[c] = "body" /\ c \in Outstanding
    /\ HandOff /\ Head(last.queue0) \in Nested =>
           last.call \notin Ancestors(Head(last.queue0))

\* a Mutex whose use operation asked for the lock again: the request is queued,
\* no job is left to run and no token is in a caller's hands
C36_Witness ==
    /\ api = "Mutex"
    /\ jobs = <<>>
    /\ \E d \in Nested : Queued(d) /\ pc[parent[d]] = "body" /\ kind[parent[d]] = "Mutex.use"
    /\ \A c \in Calls : pc[c] # "holding"

\* ----------------------------------- TaskPool tasks that use a shared Mutex
\* Each task is `async () => await mutex.use(body)`. The Mutex has its own
\* semaphore and each Mutex.use call its own promises, named after the submit
\* call c that runs the task; the two objects share the microtask queue, in
\* which the jobs of the Mutex's promises carry their own types.
MutexJobType(t) == IF t = "reaction" THEN "mutexReaction" ELSE "mutexThenable"

\* the queue j1 reached from j0 by an operation of the Mutex: the jobs it added
Tagged(j0, j1) ==
    [i \in 1..Len(j1) |-> IF i <= Len(j0) THEN j1[i]
                          ELSE [j1[i] EXCEPT !.type = MutexJobType(@)]]

MutexJobHead(t, p) == jobs # <<>> /\ Head(jobs).type = t /\ Head(jobs).p = p
\* the Mutex's objects as an operation sees them, over the queue j
MutexHeap(j) == [mutex EXCEPT !.jobs = j]

\* the state after a step that ran on the Mutex's heap and on the pool's
CommitBoth(hm, hp, j0) ==
    /\ mutex' = [hm EXCEPT !.jobs = <<>>]
    /\ Commit([hp EXCEPT !.jobs = Tagged(j0, hm.jobs)])

\* const mutex = new Mutex(), before the tasks are written
NewMutex ==
    /\ mutex = NoMutex
    /\ mutex' = SharedMutex
    /\ UNCHANGED <<semVars, newVars, minWait, waits, progVars, timedVars, parent, mpc>>

\* taskPool.submitAll(tasks) over n tasks that share the Mutex
SubmitTasks(n) == mutex = SharedMutex /\ CallSubmitAll(n)

\* the pool's use() resumes with its token and calls the task, which calls
\* mutex.use(body) and awaits it: use() awaits the task's pending promise
TaskCallsMutex ==
    /\ JobHead("reaction", "acq")
    /\ LET c == Head(jobs).call
           hm == Awaited(MutexUse(MutexHeap(Tail(jobs)), c), c, "wrap")
           hp == Then([Popped EXCEPT !.pst[c]["body"] = Pending], c, "body")
       IN  /\ kind[c] = "submit"
           /\ CommitBoth(hm, hp, Tail(jobs))
           /\ pc' = [pc EXCEPT ![c] = "body"]
           /\ mpc' = [mpc EXCEPT ![c] = "acquiring"]
           /\ last' = Event("body", c, "none")
           /\ Received(c)
    /\ UNCHANGED <<api, capacity, newVars, minWait, waits, progVars, timedVars, parent,
                   taskOf, pall, psub, seen, kind, outcome, firstFailed, arrived, result,
                   nextCall>>

\* the steps below leave the pool's calls where they are
MutexFrame ==
    UNCHANGED <<api, capacity, newVars, minWait, waits, progVars, timedVars, parent,
                taskOf, pall, psub, seen, kind, pc, outcome, firstFailed, arrived,
                result, recvOrder, nextCall>>

\* NewPromiseResolveThenableJob for a promise of the Mutex
MutexRunThenable ==
    /\ jobs # <<>> /\ Head(jobs).type = "mutexThenable"
    /\ CommitBoth(Then(MutexHeap(Tail(jobs)), Head(jobs).call, Head(jobs).p),
                  Popped, Tail(jobs))
    /\ last' = Internal
    /\ UNCHANGED mpc
    /\ MutexFrame

\* the reaction of `inner` resolves the promise of the async function of the
\* Mutex that returned it: acquire() for "fut", Mutex.use() for "use"
MutexAdopt(inner, outer) ==
    /\ MutexJobHead("mutexReaction", inner)
    /\ LET c == Head(jobs).call
       IN  CommitBoth(Settle(MutexHeap(Tail(jobs)), c, outer,
                             mutex.pst[c][inner].st, mutex.pst[c][inner].val),
                      Popped, Tail(jobs))
    /\ last' = Internal
    /\ UNCHANGED mpc
    /\ MutexFrame

MutexAdoptFut == MutexAdopt("fut", "acq")
MutexAdoptUse == MutexAdopt("use", "wrap")

\* the Mutex's use() resumes with its token and calls the body, which awaits
\* a timer: use() awaits the body's pending promise
MutexBodyStarts ==
    /\ MutexJobHead("mutexReaction", "acq")
    /\ LET c == Head(jobs).call
       IN  /\ CommitBoth(Then([MutexHeap(Tail(jobs)) EXCEPT !.pst[c]["body"] = Pending],
                              c, "body"),
                         Popped, Tail(jobs))
           /\ mpc' = [mpc EXCEPT ![c] = "body"]
    /\ last' = Internal
    /\ MutexFrame

\* the body of task c ends: it returns its value or throws
MutexBodyEnds(c) ==
    /\ mpc[c] = "body"
    /\ \E o \in Outcomes(c) :
          CommitBoth(Settle(MutexHeap(jobs), c, "body", o.st, o.val), Heap, jobs)
    /\ mpc' = [mpc EXCEPT ![c] = "finishing"]
    /\ last' = Internal
    /\ MutexFrame

\* the Mutex's use() resumes after `await fn()`: finally { release() }
MutexUseResumes ==
    /\ MutexJobHead("mutexReaction", "body")
    /\ LET c == Head(jobs).call
       IN  /\ CommitBoth(useFinally(MutexHeap(Tail(jobs)), c, mutex.pst[c]["body"]),
                         Popped, Tail(jobs))
           /\ mpc' = [mpc EXCEPT ![c] = "settled"]
    /\ last' = Internal
    /\ MutexFrame

\* the task resumes from `await mutex.use(body)` and returns or rethrows: the
\* promise the pool's use() awaits settles
TaskReturns ==
    /\ MutexJobHead("mutexReaction", "wrap")
    /\ LET c == Head(jobs).call
           o == mutex.pst[c]["wrap"]
       IN  /\ Commit(Settle(Popped, c, "body", o.st, o.val))
           /\ outcome' = [outcome EXCEPT ![c] = o]
           /\ Fails(c, o)
           /\ pc' = [pc EXCEPT ![c] = "finishing"]
           /\ mpc' = [mpc EXCEPT ![c] = "returned"]
    /\ last' = Internal
    /\ UNCHANGED <<api, capacity, newVars, minWait, waits, progVars, timedVars, parent,
                   mutex, taskOf, pall, psub, seen, kind, arrived, result, recvOrder,
                   nextCall>>

\* a job of the microtask queue runs
RunPoolOrMutexJob ==
    \/ RunThenable
    \/ AdoptFut
    \/ AdoptUse
    \/ TaskCallsMutex
    \/ MutexRunThenable
    \/ MutexAdoptFut
    \/ MutexAdoptUse
    \/ MutexBodyStarts
    \/ MutexUseResumes
    \/ TaskReturns
    \/ UseResumes
    \/ AllThenable
    \/ AllElement
    \/ AllAdopt
    \/ SubmitAllObserved

NextShared ==
    \/ NewMutex
    \/ \E n \in 1..MaxCalls : SubmitTasks(n)
    \/ RunPoolOrMutexJob
    \/ \E c \in Calls : MutexBodyEnds(c)

\* the microtask queue is drained and every body that started comes to its end
ProgressShared == RunPoolOrMutexJob \/ \E c \in Calls : MutexBodyEnds(c)

SpecShared == InitPool /\ [][NextShared]_vars /\ WF_vars(ProgressShared)

\* the tasks whose body holds the Mutex: from the call of the body to release()
InMutex == {c \in Calls : mpc[c] \in {"body", "finishing"}}
\* the values of the tasks of the list, in the order of the list
ValuesInListOrder ==
    [i \in 1..Cardinality(Members) |-> ValueOf(CHOOSE c \in Members : taskOf[c] = i)]
BodyThrew == \E c \in Members : mutex.pst[c]["body"].st = "rejected"
SubmitAllSettled == seen.st \in {"fulfilled", "rejected"}

\* what holds at every moment of a submitAll whose tasks use the shared Mutex
SharedMutexSafe ==
    /\ Cardinality(InMutex) <= 1
    /\ mutex.count = Cardinality(InMutex) + Cardinality({c \in Calls :
              mpc[c] = "acquiring" /\ mutex.issued[c] /\ ~mutex.released[c]})
    /\ mutex.count <= 1 /\ used <= capacity
    /\ InMutex \subseteq {c \in Members : pc[c] = "body"}
    /\ seen.st = "fulfilled" => ~BodyThrew /\ seen.values = ValuesInListOrder
    /\ seen.st = "rejected" => BodyThrew

\* C32: TaskPool(c).submitAll over tasks that each perform one mutex.use on a
\* shared Mutex never has two bodies inside the Mutex, and once called it
\* comes to its end: its promise settles, fulfilled with the values in the
\* order of the list when no body threw, every task has run and both the pool
\* and the Mutex have all their permits back
C32_PoolOverSharedMutexCompletes ==
    /\ []SharedMutexSafe
    /\ (psub.st = "pending") ~>
           (/\ SubmitAllSettled /\ (BodyThrew \/ seen.st = "fulfilled")
            /\ MembersDone /\ \A c \in Members : mpc[c] = "returned"
            /\ used = 0 /\ mutex.count = 0 /\ queue = <<>> /\ mutex.queue = <<>>)

\* a pool of two slots ran more tasks than it has slots, a task waited for the
\* Mutex, and submitAll was seen to deliver every value
C32_Witness ==
    /\ capacity = 2 /\ Cardinality(Members) > capacity
    /\ mutex.enqOrder # <<>> /\ enqOrder # <<>>
    /\ seen.st = "fulfilled" /\ seen.values = ValuesInListOrder
    /\ MembersDone /\ used = 0 /\ mutex.count = 0


====
